---- MODULE Spec2Model ----
(***************************************************************************)
(* A model of the register layer of tripipy (src/trinamicDriver.py): the   *)
(* register nodes (triHex, triPosint, triSignedint, triEnum, triMixed with *)
(* its triSubInt children, and the triByteFlags status node), their 5 byte *)
(* frames, and the transfer sequencer of TrinamicDriver (writeInt,         *)
(* readInt, readWriteMultiple) driving an SPI transport whose responses    *)
(* are chosen nondeterministically.                                        *)
(*                                                                         *)
(* A session is constructed (Init) and the application issues one call: a  *)
(* batch (readWriteMultiple) on the session as constructed, or a call on   *)
(* one node (setVal, writeBytes, loadBytes, the flag tests and changes, a  *)
(* subfield's set and getCurrent) or on one register through the driver    *)
(* (writeInt, readInt), before which it may preset the cached value of one *)
(* node (Preset, PresetLoad, PresetStatus).  A batch call is followed      *)
(* exchange by exchange: Call_readWriteMultiple runs the code up to and    *)
(* including the seed transfer, RWM_Step one pass of the loop, RWM_Flush   *)
(* the final exchange and the return.                                      *)
(*                                                                         *)
(* Values are kept below 2^31: the bounded registers of the table are at   *)
(* most 30 bits wide and the frames that are unpacked have a top data byte *)
(* below 128.                                                              *)
(***************************************************************************)
EXTENDS Integers, Sequences, FiniteSets, TLC

VARIABLES
    nodes,      \* register name -> [curval, isset]: the node's cached value
    shortstat,  \* curval of the SHORTSTAT node
    pc,         \* "idle", "loop" (inside readWriteMultiple), "done", "failed"
    call,       \* the call in progress or last made, with its arguments
    idx,        \* readWriteMultiple: index into regList of the next operation
    ba,         \* readWriteMultiple: the frame buffer
    prevname,   \* readWriteMultiple: name of the register last sent
    readback,   \* readWriteMultiple: the next response is wanted
    resp,       \* readWriteMultiple: the mapping that is returned
    xfers,      \* the transfers the call has issued so far, in order
    err,        \* the exception that ended the call, or "none"
    errat,      \* where it was raised: "args", "build" (of a frame), "length"
                \* (of an answer), "load" (of an answer), "setVal"; or "none"
    before,     \* the nodes as they were when the call started
    result,     \* what a call on a node returned, "none" if nothing
    tree,       \* the nodes of the session's tree, in the order they were made
    tcall,      \* the call last made on the tree, with its arguments
    tres,       \* what that call returned or raised: [err, node]
    tbefore,    \* the tree as it was when that call started
    locking,    \* the threads take turns: an invocation starts only when none runs
    tinv,       \* per thread: the invocation it makes, [op, regList]
    tpc,        \* per thread: "idle", "run", "done" or "failed"
    tpos,       \* per thread: the number of transfers its invocation has issued
    tprev,      \* per thread: prevname of its invocation
    tresp,      \* per thread: resp of its invocation (readInt: resint under its name)
    tat,        \* per thread: the statement it is at: "write", "xfer", "load",
                \* "record" or "status"
    tback,      \* per thread: bytesback, the answer of its last exchange
    tsrc,       \* per thread: the register whose data that answer carries
    chipreq,    \* the register address of the frame the chip received last, -1 at first
    loadlog     \* the loads made so far: [node, of], the node loaded and the
                \* register whose data the answer carried

\* the tree
tvars == <<tree, tcall, tres, tbefore>>

\* the registers and the sequencer
dvars == <<nodes, shortstat, pc, call, idx, ba, prevname, readback, resp, xfers, err, errat, before, result>>

\* the sequencer's own variables, which an invocation on a thread has as locals
svars == <<pc, call, idx, ba, prevname, readback, resp, xfers, err, errat, before, result>>

\* the threads and the chip
cvars == <<locking, tinv, tpc, tpos, tprev, tresp, tat, tback, tsrc, chipreq, loadlog>>

vars == <<nodes, shortstat, pc, call, idx, ba, prevname, readback, resp, xfers, err, errat, before, result,
          tree, tcall, tres, tbefore, locking, tinv, tpc, tpos, tprev, tresp, tat, tback, tsrc,
          chipreq, loadlog>>

(***************************************************************************)
(* Bounds of the model.                                                    *)
(***************************************************************************)
\* longest batch handed to readWriteMultiple
MaxOps == 3

\* most nodes the application attaches to the tree
MaxAttach == 2

(***************************************************************************)
(* Integer helpers: Python's >>, <<, & and | on the values that occur.     *)
(***************************************************************************)
RECURSIVE Pow2(_)
Pow2(n) == IF n = 0 THEN 1 ELSE 2 * Pow2(n - 1)

Shr(x, n) == x \div Pow2(n)

Shl(x, n) == x * Pow2(n)

\* a & b for naturals
RECURSIVE NatAnd(_, _)
NatAnd(a, b) ==
    IF a = 0 \/ b = 0 THEN 0
    ELSE 2 * NatAnd(a \div 2, b \div 2) + (IF a % 2 = 1 /\ b % 2 = 1 THEN 1 ELSE 0)

\* a | b for naturals
RECURSIVE NatOr(_, _)
NatOr(a, b) ==
    IF a = 0 THEN b
    ELSE IF b = 0 THEN a
    ELSE 2 * NatOr(a \div 2, b \div 2) + (IF a % 2 = 1 \/ b % 2 = 1 THEN 1 ELSE 0)

\* number of bits of a natural
RECURSIVE BitLen(_)
BitLen(a) == IF a = 0 THEN 0 ELSE 1 + BitLen(a \div 2)

\* Python's a & b for b >= 0 and any a: a negative a is an infinite run of
\* one bits above its two's complement, of which b keeps BitLen(b) bits.
BitAnd(a, b) == IF a >= 0 THEN NatAnd(a, b) ELSE NatAnd(a % Pow2(BitLen(b)), b)

(***************************************************************************)
(* The register table (motordef['regNames']) of the session: eight entries *)
(* of the tmc5130 table, and two signed registers of the least width and   *)
(* of the greatest width whose values stay below 2^31 (the signed          *)
(* registers of the tmc5130 table are 24 and 32 bits wide).  maxval -1     *)
(* stands for maxval=None; sigbits 0 for a class that takes no sigbits.    *)
(***************************************************************************)
RegTable ==
    [ VACTUAL |-> [rclass |-> "triSignedint", addr |-> 34, access |-> "RW", sigbits |-> 24, maxval |-> -1],
      IFCNT   |-> [rclass |-> "triPosint",    addr |-> 2,  access |-> "R",  sigbits |-> 8,  maxval |-> -1],
      VMAX    |-> [rclass |-> "triPosint",    addr |-> 39, access |-> "W",  sigbits |-> 23, maxval |-> 8388096],
      ENCMODE |-> [rclass |-> "triHex",       addr |-> 56, access |-> "RW", sigbits |-> 0,  maxval |-> -1],
      GCONF   |-> [rclass |-> "triMixed",     addr |-> 0,  access |-> "RW", sigbits |-> 0,  maxval |-> -1],
      IHOLD_IRUN |-> [rclass |-> "triMixed",  addr |-> 16, access |-> "W",  sigbits |-> 0,  maxval |-> -1],
      DRVSTATUS |-> [rclass |-> "triMixed",   addr |-> 111, access |-> "R", sigbits |-> 0,  maxval |-> -1],
      RAMPMODE |-> [rclass |-> "triEnum",     addr |-> 32, access |-> "RW", sigbits |-> 0,  maxval |-> -1],
      SIGNED2 |-> [rclass |-> "triSignedint", addr |-> 125, access |-> "RW", sigbits |-> 2, maxval |-> -1],
      SIGNED30 |-> [rclass |-> "triSignedint", addr |-> 126, access |-> "RW", sigbits |-> 30, maxval |-> -1] ]

RegNames == DOMAIN RegTable

\* triRegister.__init__: the access flags
readable(r) == RegTable[r].access \in {"R", "RW"}

writeable(r) == RegTable[r].access \in {"W", "RW"}

addr(r) == RegTable[r].addr

isInt(r) == RegTable[r].rclass \in {"triPosint", "triSignedint"}

rclassOf(r) == RegTable[r].rclass

\* the members of the enumClass of the table's triEnum register (RAMPmode), by
\* their values
EnumMembers == {0, 1, 2, 3}

\* the table's mixed registers that are given a flagClass
hasFlagClass(r) == r \in {"GCONF", "DRVSTATUS"}

\* the childdefs of the table's mixed registers: triSubInt children
SubTable ==
    [ IHOLD      |-> [parent |-> "IHOLD_IRUN", lowbit |-> 0,  bitcount |-> 5],
      IRUN       |-> [parent |-> "IHOLD_IRUN", lowbit |-> 8,  bitcount |-> 5],
      IHOLDDELAY |-> [parent |-> "IHOLD_IRUN", lowbit |-> 16, bitcount |-> 4],
      SG_RESULT  |-> [parent |-> "DRVSTATUS",  lowbit |-> 0,  bitcount |-> 10],
      CS_ACTUAL  |-> [parent |-> "DRVSTATUS",  lowbit |-> 16, bitcount |-> 5] ]

SubNames == DOMAIN SubTable

\* the classes whose __init__ gives the node a value: triPosint and
\* triSignedint set initialval, triMixed sets curval=0; triHex and triEnum
\* have no curval until one is set or loaded
hasInitial(r) == isInt(r) \/ rclassOf(r) = "triMixed"

\* triPosint.__init__ / triSignedint.__init__
maxval(r) ==
    IF RegTable[r].rclass = "triPosint"
    THEN IF RegTable[r].maxval = -1 THEN Pow2(RegTable[r].sigbits) - 1 ELSE RegTable[r].maxval
    ELSE Pow2(RegTable[r].sigbits - 1) - 1

minval(r) == IF RegTable[r].rclass = "triPosint" THEN 0 ELSE -maxval(r) - 1

mask(r) == Pow2(RegTable[r].sigbits) - 1

(***************************************************************************)
(* Frames.  A frame is a sequence of FrameLen bytes; ba[1] is the code's   *)
(* ba[0].                                                                  *)
(***************************************************************************)
FrameLen == 5

\* ba=[0]*5
ZeroFrame == [i \in 1..FrameLen |-> 0]

\* a readBytes that sets the write bit
readBytes_writeBit(r, buf) == [buf EXCEPT ![1] = NatOr(addr(r), 128)]

\* triRegister.readBytes: only the first byte of the buffer is set
readBytes(r, buf) == [buf EXCEPT ![1] = addr(r)]

\* a packBytes that puts the low byte first
packBytes_lowFirst(r, buf, rawval) ==
    [buf EXCEPT ![1] = NatOr(addr(r), 128),
                ![2] = BitAnd(rawval, 255),
                ![3] = BitAnd(Shr(rawval, 8), 255),
                ![4] = BitAnd(Shr(rawval, 16), 255),
                ![5] = BitAnd(Shr(rawval, 24), 255)]

\* triRegister.packBytes, the writeable branch
packBytes(r, buf, rawval) ==
    [buf EXCEPT ![1] = NatOr(addr(r), 128),
                ![2] = BitAnd(Shr(rawval, 24), 255),
                ![3] = BitAnd(Shr(rawval, 16), 255),
                ![4] = BitAnd(Shr(rawval, 8), 255),
                ![5] = BitAnd(rawval, 255)]

\* an unpackBytes that leaves out the top data byte
unpackBytes_low24(buf) ==
    NatOr(NatOr(Shl(buf[3], 16), Shl(buf[4], 8)), buf[5])

\* triRegister.unpackBytes
unpackBytes(buf) ==
    NatOr(NatOr(NatOr(Shl(buf[2], 24), Shl(buf[3], 16)), Shl(buf[4], 8)), buf[5])

\* a flush frame that keeps the write bit
clearWriteBit_keep(buf) == buf

\* the flush frame: ba[0] = ba[0] & 127
clearWriteBit(buf) == [buf EXCEPT ![1] = BitAnd(buf[1], 127)]

isWriteFrame(buf) == buf[1] >= 128

(***************************************************************************)
(* Register nodes.  Each operation takes the nodes (and the buffer) and    *)
(* yields [nodes, ba, err]: the nodes and buffer it leaves behind and the  *)
(* exception it raised, "none" when it returned.                           *)
(***************************************************************************)
RangeErr == "ValueError: not a legal value"

AccessErr == "ValueError: does not allow write"

NoneAndErr == "TypeError: NoneType & int"

\* a method or attribute the object does not have
NoAttrErr == "AttributeError"

\* triMixed.writeBytes with a value
NewValueErr == "ValueError: cannot accept new value in writeBytes"

\* enumClass(value) for a value that is no member
EnumErr == "ValueError: not a valid member"

AssertErr == "AssertionError"

\* triRegister.getCurrent: raise NotImplementedError()
NotImplErr == "NotImplementedError"

\* triHex.setVal: self.curval=value
store(nd, r, value) == [nd EXCEPT ![r] = [curval |-> value, isset |-> TRUE]]

\* a range test that refuses the upper bound
legal_strict(r, value) == minval(r) <= value /\ value < maxval(r)

\* triInt.setVal: the range test
legal(r, value) == minval(r) <= value /\ value <= maxval(r)

\* a setVal that stores the value before it tests it
setVal_storeFirst(nd, r, value) ==
    [nodes |-> [nd EXCEPT ![r] = [curval |-> value, isset |-> TRUE]],
     err |-> IF isInt(r) /\ ~(minval(r) <= value /\ value <= maxval(r)) THEN RangeErr ELSE "none"]

\* setVal of the register's class (triHex.setVal, triInt.setVal); triMixed
\* and triEnum have none
setVal(nd, r, value) ==
    IF rclassOf(r) \in {"triMixed", "triEnum"}
    THEN [nodes |-> nd, err |-> NoAttrErr]
    ELSE IF isInt(r) /\ ~legal(r, value)
    THEN [nodes |-> nd, err |-> RangeErr]
    ELSE [nodes |-> store(nd, r, value), err |-> "none"]

\* triHex.getCurrent
getCurrent(nd, r) == nd[r].curval

\* node.getCurrent() of the register's class: triHex defines it, and triInt
\* and its subclasses take it from triHex; triEnum defines it; triMixed
\* defines none, so that triRegister.getCurrent is what runs.  [err, value]
getCurrentOf(nd, r) ==
    IF rclassOf(r) = "triMixed" THEN [err |-> NotImplErr, value |-> "none"]
    ELSE IF ~nd[r].isset THEN [err |-> NoAttrErr, value |-> "none"]
    ELSE [err |-> "none", value |-> getCurrent(nd, r)]

\* the value writeBytes hands to packBytes: masked for triInt only
rawOf(nd, r) == IF isInt(r) THEN BitAnd(getCurrent(nd, r), mask(r)) ELSE getCurrent(nd, r)

\* a writeBytes that lets a mixed register take a value, as triHex does
writeBytes_mixedTakes(nd, r, buf, value) ==
    LET sv == IF rclassOf(r) \in {"triEnum", "triMixed"}
              THEN [nodes |-> store(nd, r, value), err |-> "none"]
              ELSE setVal(nd, r, value)
    IN
    IF sv.err # "none" THEN [nodes |-> sv.nodes, ba |-> buf, err |-> sv.err]
    ELSE IF ~writeable(r) THEN [nodes |-> sv.nodes, ba |-> buf, err |-> AccessErr]
    ELSE [nodes |-> sv.nodes, ba |-> packBytes(r, buf, rawOf(sv.nodes, r)), err |-> "none"]

\* writeBytes of the register's class with a value.  triHex, triInt: setVal,
\* then packBytes, which is where a register that is not writeable is
\* refused; triEnum: self.curval=value, then packBytes of the member's value;
\* triMixed refuses a value
writeBytes(nd, r, buf, value) ==
    LET sv == IF rclassOf(r) = "triEnum"
              THEN [nodes |-> store(nd, r, value), err |-> "none"]
              ELSE setVal(nd, r, value)
    IN
    IF rclassOf(r) = "triMixed" THEN [nodes |-> nd, ba |-> buf, err |-> NewValueErr]
    ELSE IF sv.err # "none" THEN [nodes |-> sv.nodes, ba |-> buf, err |-> sv.err]
    ELSE IF ~writeable(r) THEN [nodes |-> sv.nodes, ba |-> buf, err |-> AccessErr]
    ELSE [nodes |-> sv.nodes, ba |-> packBytes(r, buf, rawOf(sv.nodes, r)), err |-> "none"]

\* writeBytes of the register's class with value=None: packBytes of the
\* current value, which a triHex or triEnum node may not have yet
writeCurrent(nd, r, buf) ==
    IF ~nd[r].isset THEN [nodes |-> nd, ba |-> buf, err |-> NoAttrErr]
    ELSE IF ~writeable(r) THEN [nodes |-> nd, ba |-> buf, err |-> AccessErr]
    ELSE [nodes |-> nd, ba |-> packBytes(r, buf, rawOf(nd, r)), err |-> "none"]

\* a signedOf that does not extend the sign
signedOf_noExtend(r, buf) == BitAnd(unpackBytes(buf), mask(r))

\* triSignedint.loadBytes: the value handed to setVal
signedOf(r, buf) ==
    LET bbval == BitAnd(unpackBytes(buf), mask(r)) IN
    IF BitAnd(bbval, -minval(r)) # 0 THEN minval(r) * 2 + bbval ELSE bbval

\* triPosint.loadBytes: self.setVal(self.unpackBytes(ba)) & self.mask; setVal is
\* handed the unmasked value, and its result, None, is then and-ed with the mask
posintLoad(nd, r, buf) ==
    LET sv == setVal(nd, r, unpackBytes(buf)) IN
    IF sv.err # "none" THEN sv ELSE [nodes |-> sv.nodes, err |-> NoneAndErr]

\* an enum that takes every value for a member
isMember_any(value) == TRUE

\* enumClass(value) returns for the values of the members
isMember(value) == value \in EnumMembers

\* triEnum.loadBytes: self.curval=self.enumClass(self.unpackBytes(ba))
enumLoad(nd, r, buf) ==
    IF isMember(unpackBytes(buf))
    THEN [nodes |-> store(nd, r, unpackBytes(buf)), err |-> "none"]
    ELSE [nodes |-> nd, err |-> EnumErr]

\* loadBytes of the register's class
loadBytes(nd, r, buf) ==
    IF RegTable[r].rclass = "triPosint" THEN posintLoad(nd, r, buf)
    ELSE IF RegTable[r].rclass = "triSignedint" THEN setVal(nd, r, signedOf(r, buf))
    ELSE IF RegTable[r].rclass = "triEnum" THEN enumLoad(nd, r, buf)
    ELSE IF RegTable[r].rclass = "triMixed"
    THEN [nodes |-> store(nd, r, unpackBytes(buf)), err |-> "none"]
    ELSE setVal(nd, r, unpackBytes(buf))

(***************************************************************************)
(* Flags and subfields.                                                    *)
(***************************************************************************)
\* a & ~b for naturals
AndNot(a, b) == a - NatAnd(a, b)

\* triByteFlags.testFlag
testFlag(cur, flagbits) == BitAnd(cur, flagbits) = flagbits

\* triMixed.__init__: what self.flagmask is after construction.  Without a
\* flagClass it is None; with one, the mask is stored as self.flagsmask and
\* there is no attribute flagmask
flagmaskOf(r) == IF hasFlagClass(r) THEN "no attribute" ELSE "None"

\* assert not self.flagmask is None
flagGuard(r) ==
    IF flagmaskOf(r) = "no attribute" THEN NoAttrErr
    ELSE IF flagmaskOf(r) = "None" THEN AssertErr
    ELSE "none"

\* triMixed.testFlags
testFlags(nd, r, flagbits) ==
    IF flagGuard(r) # "none" THEN [err |-> flagGuard(r), value |-> "none"]
    ELSE [err |-> "none", value |-> (BitAnd(nd[r].curval, flagbits) = flagbits)]

\* triMixed.setFlags
setFlags(nd, r, flagbits, on) ==
    IF flagGuard(r) # "none" THEN [nodes |-> nd, err |-> flagGuard(r)]
    ELSE [nodes |-> [nd EXCEPT ![r].curval = IF on THEN NatOr(@, flagbits) ELSE AndNot(@, flagbits)],
          err |-> "none"]

\* triSubInt.__init__: self.bitmask
bitmask(s) == Shl(Pow2(SubTable[s].bitcount) - 1, SubTable[s].lowbit)

\* a getCurrent that does not shift the field down
subGetCurrent_noShift(nd, s) == BitAnd(nd[SubTable[s].parent].curval, bitmask(s))

\* triSubInt.getCurrent
subGetCurrent(nd, s) ==
    Shr(BitAnd(nd[SubTable[s].parent].curval, bitmask(s)), SubTable[s].lowbit)

\* a test that refuses negative values only
subFits_nonneg(s, value) == value >= 0

\* triSubInt.set: assert shv & self.bitmask==shv
subFits(s, value) ==
    LET shv == Shl(value, SubTable[s].lowbit) IN BitAnd(shv, bitmask(s)) = shv

\* what a set that fits stores in the parent: the field without the mask cut
\* out first
subStore_noClear(nd, s, value) ==
    [nd EXCEPT ![SubTable[s].parent].curval = NatOr(@, Shl(value, SubTable[s].lowbit))]

\* triSubInt.set: pv=self.parent.curval & ~self.bitmask; self.parent.curval = pv | shv
subStore(nd, s, value) ==
    [nd EXCEPT ![SubTable[s].parent].curval =
                   NatOr(AndNot(@, bitmask(s)), Shl(value, SubTable[s].lowbit))]

\* triSubInt.set
subSet(nd, s, value) ==
    IF ~subFits(s, value) THEN [nodes |-> nd, err |-> AssertErr]
    ELSE [nodes |-> subStore(nd, s, value), err |-> "none"]

\* a loadByte that drops the byte
loadByte_zero(abyte) == 0

\* triByteFlags.loadByte
loadByte(abyte) == abyte

(***************************************************************************)
(* The tree (src/treedict.py).  A tree is the sequence of its nodes in the *)
(* order they were created; a node is known by its place in it.  A node    *)
(* holds its name, its parent and app (places, None for no node) and its   *)
(* OrderedDict: the keys in their order, each with the node it maps to.    *)
(***************************************************************************)
\* Python's None where a node is expected
None == 0

KeyErr == "KeyError"

\* list(node.keys())
keysOf(t, n) == [i \in DOMAIN t[n].kids |-> t[n].kids[i].key]

\* key in node
hasKey(t, n, key) == \E i \in DOMAIN t[n].kids : t[n].kids[i].key = key

\* OrderedDict.__getitem__ for a key that is there
dictGet(t, n, key) == t[n].kids[CHOOSE i \in DOMAIN t[n].kids : t[n].kids[i].key = key].node

\* a dict that puts a new key in front
dictSet_front(t, n, key, node) ==
    IF hasKey(t, n, key)
    THEN [t EXCEPT ![n].kids = [i \in DOMAIN @ |-> IF @[i].key = key
                                                  THEN [key |-> key, node |-> node] ELSE @[i]]]
    ELSE [t EXCEPT ![n].kids = <<[key |-> key, node |-> node]>> \o @]

\* OrderedDict.__setitem__: a new key goes to the end, a key that is there
\* keeps its place and takes the new node
dictSet(t, n, key, node) ==
    IF hasKey(t, n, key)
    THEN [t EXCEPT ![n].kids = [i \in DOMAIN @ |-> IF @[i].key = key
                                                  THEN [key |-> key, node |-> node] ELSE @[i]]]
    ELSE [t EXCEPT ![n].kids = Append(@, [key |-> key, node |-> node])]

\* a test that lets every name pass
nameFree_any(t, parent, name) == TRUE

\* Tree_dict.__init__, line 47: assert not self.name in parent
nameFree(t, parent, name) == ~hasKey(t, parent, name)

\* a makeChild that makes the child its own app, as a node made without app is
makeChild_ownApp(t, parent, name) ==
    LET nd == [name |-> name, parent |-> parent, app |-> Len(t) + 1, kids |-> <<>>] IN
    IF hasKey(t, parent, name) THEN [tree |-> t, err |-> AssertErr, node |-> None]
    ELSE [tree |-> [Append(t, nd) EXCEPT ![parent].kids = Append(@, [key |-> name, node |-> Len(t) + 1])],
          err |-> "none", node |-> Len(t) + 1]

\* Tree_dict.makeChild, and the Tree_dict.__init__ it runs for a child without
\* childdefs: the node is made with the parent's app and put in the parent's
\* dict under its name.  [tree, err, node]
makeChild(t, parent, name) ==
    LET nd == [name |-> name, parent |-> parent, app |-> t[parent].app, kids |-> <<>>] IN
    IF ~nameFree(t, parent, name) THEN [tree |-> t, err |-> AssertErr, node |-> None]
    ELSE [tree |-> dictSet(Append(t, nd), parent, name, Len(t) + 1), err |-> "none",
          node |-> Len(t) + 1]

\* a parent step that stays where it is
upFrom_stay(t, cnode) == cnode

\* line 75: cnode=cnode.parent
upFrom(t, cnode) == t[cnode].parent

\* an empty segment that moves to the node the lookup started from
rootOf_self(t, self) == self

\* line 73: cnode=self.app
rootOf(t, self) == t[self].app

\* Tree_dict.__getitem__, lines 62-69: a name without separator.  [err, node]
getOne(t, n, nname) ==
    IF nname = ".." THEN [err |-> "none", node |-> t[n].parent]
    ELSE IF hasKey(t, n, nname) THEN [err |-> "none", node |-> dictGet(t, n, nname)]
    ELSE [err |-> KeyErr, node |-> None]

\* Tree_dict.__getitem__, lines 70-81: the loop over the segments.  A step
\* from None other than by an empty segment has no attribute to use
RECURSIVE walk(_, _, _, _)
walk(t, self, cnode, segs) ==
    IF segs = <<>> THEN [err |-> "none", node |-> cnode]
    ELSE IF Head(segs) = "" THEN walk(t, self, rootOf(t, self), Tail(segs))
    ELSE IF cnode = None THEN [err |-> NoAttrErr, node |-> None]
    ELSE IF Head(segs) = ".." THEN walk(t, self, upFrom(t, cnode), Tail(segs))
    ELSE IF getOne(t, cnode, Head(segs)).err # "none" THEN [err |-> KeyErr, node |-> None]
    ELSE walk(t, self, getOne(t, cnode, Head(segs)).node, Tail(segs))

\* Tree_dict.__getitem__; splitname is nname.split('/')
getitem(t, n, splitname) ==
    IF Len(splitname) = 1 THEN getOne(t, n, splitname[1]) ELSE walk(t, n, n, splitname)

\* nextChild's name=None: no name given
NoName == "<None>"

\* list.index's failure
ValueErr == "ValueError: not in list"

\* a step that goes forward whatever forward is
stepIndex_forward(ix, forward) == ix + 1

\* line 97: ilk.index(name) + (1 if forward else -1)
stepIndex(ix, forward) == ix + (IF forward THEN 1 ELSE -1)

\* Tree_dict.nextChild without filter, lines 91-108; places count from 0 as
\* in the code, and kids[ix + 1] is ili[ix].  [err, key, node], with key
\* NoName and node None for the answer (None, None)
nextChild(t, n, name, forward, wrap) ==
    LET ili == t[n].kids
        nothing == [err |-> "none", key |-> NoName, node |-> None]
        at(ix) == [err |-> "none", key |-> ili[ix + 1].key, node |-> ili[ix + 1].node]
        ix == stepIndex((CHOOSE k \in DOMAIN ili : ili[k].key = name) - 1, forward)
    IN
    IF Len(ili) = 0 THEN nothing
    ELSE IF name = NoName THEN (IF forward THEN at(0) ELSE at(Len(ili) - 1))
    ELSE IF ~hasKey(t, n, name) THEN [err |-> ValueErr, key |-> NoName, node |-> None]
    ELSE IF ix >= Len(ili) THEN (IF wrap THEN at(0) ELSE nothing)
    ELSE IF ix < 0 THEN (IF wrap THEN at(Len(ili) - 1) ELSE nothing)
    ELSE at(ix)

\* the names of motordef['regNames'] in the order of the table
RegOrder ==
    <<"SHORTSTAT", "GCONF", "IFCNT", "IHOLD_IRUN", "RAMPMODE", "VACTUAL", "VMAX", "ENCMODE",
      "DRVSTATUS", "SIGNED2", "SIGNED30">>

\* the names of a register's childdefs, in their order
childdefs(r) ==
    IF r = "IHOLD_IRUN" THEN <<"IHOLD", "IRUN", "IHOLDDELAY">>
    ELSE IF r = "DRVSTATUS" THEN <<"SG_RESULT", "CS_ACTUAL">>
    ELSE <<>>

\* TrinamicDriver.__init__, lines 135-137, and Tree_dict.__init__, lines 49-51:
\* the children are made in order, each with its own children once it is
\* in its parent's dict
RECURSIVE makeAll(_, _, _)
makeAll(t, parent, names) ==
    IF names = <<>> THEN t
    ELSE LET mc == makeChild(t, parent, Head(names)) IN
         makeAll(makeAll(mc.tree, mc.node, childdefs(Head(names))), parent, Tail(names))

\* the driver itself: the root of its tree, its own app
RootNode == [name |-> "motor", parent |-> None, app |-> 1, kids |-> <<>>]

\* the tree TrinamicDriver.__init__ leaves: the driver, chipregs, the
\* registers and their subfields
Constructed ==
    LET withRegs == makeChild(<<RootNode>>, 1, "chipregs") IN
    makeAll(withRegs.tree, withRegs.node, RegOrder)

(***************************************************************************)
(* Inputs: what the application passes in and what the transport answers.  *)
(***************************************************************************)
\* registers named in batches
BatchNames == {"VACTUAL", "IFCNT", "VMAX", "ENCMODE"}

\* values carried by the dict of a batch: 8388608 is out of range for every
\* bounded register of the table
BatchVals == {5, 8388608}

\* the value a node is preset to
PresetVals == {3}

ActionChars == {"R", "W", "U"}

\* values handed to a single register: around the bounds of a bounded register
TestVals(r) ==
    IF isInt(r) THEN {minval(r) - 1, minval(r), 5, maxval(r), maxval(r) + 1, mask(r), 8388608}
    ELSE IF rclassOf(r) = "triEnum" THEN EnumMembers
    ELSE {-1, 0, 5, 8388608}

\* values handed to a subfield's set: around the width of the field
SubVals(s) ==
    {-1, 0, 5, Pow2(SubTable[s].bitcount) - 1, Pow2(SubTable[s].bitcount),
     Pow2(SubTable[s].bitcount) + 5}

\* flag bits handed to the flag tests and changes: members of statusFlags
\* (1, 8, 128), GCONFflags (1, 4) and DRVSTATflags (2^15, 2^24), and unions
FlagVals == {1, 4, 8, 9, 5, 136, 32768, 16777216, 16809984}

SeqsUpTo(S, n) == UNION {[1..k -> S] : k \in 1..n}

distinct(s) == \A i, j \in DOMAIN s : s[i] = s[j] => i = j

\* spi_xfer's answer (count, data): two frames of the right length, and a
\* failed transfer
RespFrames == {<<9, 0, 0, 0, 7>>, <<32, 1, 255, 255, 254>>}

\* frames handed to a node's loadBytes: also the bounds of the table's
\* registers, and values with bits set above a register's sigbits
NodeFrames ==
    RespFrames \cup {<<0, 0, 0, 0, 255>>, <<0, 0, 0, 1, 5>>, <<0, 1, 0, 0, 5>>, <<0, 0, 127, 254, 0>>,
                     <<0, 0, 127, 254, 1>>, <<0, 0, 127, 255, 255>>, <<0, 0, 128, 0, 0>>,
                     <<0, 0, 0, 0, 2>>, <<0, 32, 0, 0, 0>>, <<0, 63, 255, 255, 255>>,
                     <<0, 96, 0, 0, 1>>, <<0, 1, 31, 3, 255>>}

\* frames loaded into a mixed or enum node before the call: every subfield
\* and some flags set; the subfields of IHOLD_IRUN in part; a member
PresetFrames == {<<0, 1, 159, 131, 255>>, <<0, 0, 5, 18, 9>>, <<0, 0, 0, 0, 2>>}

\* status bytes loaded into SHORTSTAT before the call
PresetStatusVals == {9, 255}

\* the nodes the application attaches children to: the driver, chipregs and
\* a register with subfields
AttachTo ==
    {1, getitem(Constructed, 1, <<"chipregs">>).node,
     getitem(Constructed, 1, <<"chipregs", "IHOLD_IRUN">>).node}

\* the names it attaches: one that chipregs has, one that no node has
AttachNames == {"VMAX", "extra"}

\* the nodes a lookup starts from: the driver, chipregs, a register with
\* subfields, a leaf, and the node made last
FromNodes(t) ==
    AttachTo \cup {getitem(Constructed, 1, <<"chipregs", "VMAX">>).node, Len(t)}

\* the segments of the paths looked up
Segments == {"", "..", "chipregs", "VMAX", "IHOLD_IRUN", "IRUN", "extra"}

\* the paths looked up, split at the separator: every path of up to three
\* segments, and some of four
Paths ==
    SeqsUpTo(Segments, 3) \cup
    {<<"chipregs", "..", "chipregs", "VMAX">>, <<"chipregs", "IHOLD_IRUN", "IRUN", "..">>,
     <<"..", "..", "..", "..">>, <<"chipregs", "extra", "..", "extra">>}

\* the names nextChild starts from: every child of the node, a name that is
\* no child's, and no name
StartNames(t, n) == {t[n].kids[i].key : i \in DOMAIN t[n].kids} \cup {"nosuch", NoName}

BadResponse == [len |-> 0, bytes |-> <<>>]

Responses == {[len |-> FrameLen, bytes |-> f] : f \in RespFrames} \cup {BadResponse}

ListIndexErr == "TypeError: list indices must be integers"

NoCall == [op |-> "none", regList |-> <<>>, isdict |-> FALSE, vals |-> <<>>, regActions |-> <<>>]

\* a call on one register: its name and, where there is one, its value
OneCall(op, r, vals) ==
    [op |-> op, regList |-> <<r>>, isdict |-> FALSE, vals |-> vals, regActions |-> <<>>]

\* a call on a subfield of a mixed register
SubCall(op, s, vals) ==
    [op |-> op, regList |-> <<SubTable[s].parent>>, isdict |-> FALSE, vals |-> vals,
     regActions |-> <<>>, sub |-> s]

\* a flag test or change: the flag bits and, for a change, on
FlagCall(op, r, flagbits, on) ==
    [op |-> op, regList |-> <<r>>, isdict |-> FALSE, vals |-> <<flagbits>>,
     regActions |-> <<>>, on |-> on]

EmptyMap == [n \in {} |-> 0]

\* a transfer as the log keeps it: the frame sent, the answer, the register the
\* answer was loaded into ("none" if into none) and the pending-read flag as it
\* stands once the transfer's pass is over
Xfer(kind, frame, rsp, loaded, rb) ==
    [kind |-> kind, frame |-> frame, len |-> rsp.len, back |-> rsp.bytes, loaded |-> loaded, rb |-> rb]

\* spi_write takes no answer
NoResponse == [len |-> FrameLen, bytes |-> <<>>]

(***************************************************************************)
(* readWriteMultiple, piece by piece.                                      *)
(***************************************************************************)
\* the dict regNameList as a mapping
dictOf(regList, vals) == [n \in {regList[k] : k \in DOMAIN regList} |->
                             vals[CHOOSE k \in DOMAIN regList : regList[k] = n]]

\* a test that lets a list of actions pass that is one short or too long
actionsFit_oneShort(regList, regActions) ==
    Len(regActions) = 1 \/ Len(regActions) >= Len(regList) - 1

\* line 270: assert len(regActions)==1 or len(regActions)==len(regNameList)
actionsFit(regList, regActions) ==
    Len(regActions) = 1 \/ Len(regActions) = Len(regList)

\* line 288: useindex=0 if len(regActions)==1 else i, where i counts the
\* passes of the loop from 0 while reg runs over regList[1:]; k is the place of
\* reg in regList counted from 1, so i = k-2, and the result is a place in
\* regActions counted from 1
useindex(regActions, k) == IF Len(regActions) = 1 THEN 1 ELSE (k - 2) + 1

\* a loop that leaves out the last register
moreOps_skipLast(c, k) == k < Len(c.regList)

\* line 287: for i, reg in enumerate(regList[1:]); k is the place of reg in
\* regList counted from 1
moreOps(c, k) == k <= Len(c.regList)

\* a loop that never moves prevname on
nextPrev_first(c, k) == c.regList[1]

\* lines 307-308: prevname=reg; prevrr=rrr
nextPrev(c, k) == c.regList[k]

\* a flag that only a plain read leaves set
wantsReadback_readOnly(action) == action = "R"

\* lines 286, 309: readback = not regActions[..]=='W'
wantsReadback(action) == ~(action = "W")

\* lines 274, 290: a read frame for 'R', a write frame otherwise
sendsRead(action) == action = "R"

\* lines 300-301: the length of a step's answer is asserted under readback only
stepLengthOk(rb, rsp) == rb => rsp.len = FrameLen

\* line 314: the length of the flush's answer is asserted always
flushLengthOk(rsp) == rsp.len = FrameLen

\* the value None of a dict regNameList: writeBytes(ba, value=None).  It is
\* an integer that no input set holds as a register value
NoValue == -2147483647

\* lines 274-279, 290-293: the frame of one operation; a write takes its value
\* from regNameList[reg], which a list refuses; with the value None the
\* register's writeBytes packs its current value
buildFrame(nd, buf, c, k, action) ==
    LET reg == c.regList[k] IN
    IF sendsRead(action) THEN [nodes |-> nd, ba |-> readBytes(reg, buf), err |-> "none"]
    ELSE IF ~c.isdict THEN [nodes |-> nd, ba |-> buf, err |-> ListIndexErr]
    ELSE IF c.vals[k] = NoValue THEN writeCurrent(nd, reg, buf)
    ELSE writeBytes(nd, reg, buf, c.vals[k])

\* a load that leaves resp alone
loadInto_noRecord(nd, rmap, name, bytes) ==
    [nodes |-> loadBytes(nd, name, bytes).nodes, err |-> loadBytes(nd, name, bytes).err, resp |-> rmap]

\* lines 302-303, 317-318: prevrr.loadBytes(bytesback); resp[prevname]=prevrr.curval
loadInto(nd, rmap, name, bytes) ==
    LET ld == loadBytes(nd, name, bytes) IN
    [nodes |-> ld.nodes, err |-> ld.err,
     resp |-> IF ld.err = "none" THEN (name :> ld.nodes[name].curval) @@ rmap ELSE rmap]

(***************************************************************************)
(* The session.                                                            *)
(***************************************************************************)
\* no call on the tree yet
NoTreeCall == [op |-> "none", node |-> None, name |-> "", path |-> <<>>]

\* the threads of the application that call the session
Threads == {1, 2}

NoInvocation == [op |-> "none", regList |-> <<>>]

\* TrinamicDriver.__init__: the nodes are made from the table; the bounded
\* integers set initialval=0, triHex sets no curval; SHORTSTAT loads 0
SessionInit ==
    /\ nodes = [r \in RegNames |-> [curval |-> 0, isset |-> hasInitial(r)]]
    /\ shortstat = loadByte(0)
    /\ pc = "idle"
    /\ call = NoCall
    /\ idx = 0
    /\ ba = ZeroFrame
    /\ prevname = "none"
    /\ readback = FALSE
    /\ resp = EmptyMap
    /\ xfers = <<>>
    /\ err = "none"
    /\ errat = "none"
    /\ before = nodes
    /\ result = "none"
    /\ tree = Constructed
    /\ tcall = NoTreeCall
    /\ tres = [err |-> "none", node |-> None]
    /\ tbefore = tree
    /\ tinv = [t \in Threads |-> NoInvocation]
    /\ tpc = [t \in Threads |-> "idle"]
    /\ tpos = [t \in Threads |-> 0]
    /\ tprev = [t \in Threads |-> "none"]
    /\ tresp = [t \in Threads |-> EmptyMap]
    /\ tat = [t \in Threads |-> "write"]
    /\ tback = [t \in Threads |-> <<>>]
    /\ tsrc = [t \in Threads |-> "none"]
    /\ chipreq = -1
    /\ loadlog = {}

\* one thread drives the session
Init == SessionInit /\ locking = TRUE

\* the application sets one node's value before its call: node.setVal(v)
Preset(r, v) ==
    /\ pc = "idle"
    /\ UNCHANGED <<tvars, cvars>>
    /\ UNCHANGED result
    /\ call = NoCall
    /\ call' = OneCall("preset", r, <<v>>)
    /\ nodes' = setVal(nodes, r, v).nodes
    /\ before' = nodes'
    /\ UNCHANGED <<shortstat, pc, idx, ba, prevname, readback, resp, xfers, err, errat>>

\* the application loads a frame into a mixed or enum node before its call:
\* node.loadBytes(frame)
PresetLoad(r, frame) ==
    /\ pc = "idle"
    /\ UNCHANGED <<tvars, cvars>>
    /\ call = NoCall
    /\ rclassOf(r) \in {"triMixed", "triEnum"}
    /\ call' = OneCall("preset", r, <<>>)
    /\ nodes' = loadBytes(nodes, r, frame).nodes
    /\ before' = nodes'
    /\ UNCHANGED <<shortstat, pc, idx, ba, prevname, readback, resp, xfers, err, errat, result>>

\* the application sets the three subfields of IHOLD_IRUN before its call, as
\* tmc5130.__init__ does: IHOLD.set(10), IRUN.set(15), IHOLDDELAY.set(8)
PresetSubfields ==
    LET s1 == subSet(nodes, "IHOLD", 10)
        s2 == subSet(s1.nodes, "IRUN", 15)
        s3 == subSet(s2.nodes, "IHOLDDELAY", 8)
    IN
    /\ pc = "idle"
    /\ UNCHANGED <<tvars, cvars>>
    /\ call = NoCall
    /\ call' = OneCall("preset", "IHOLD_IRUN", <<>>)
    /\ nodes' = s3.nodes
    /\ before' = nodes'
    /\ UNCHANGED <<shortstat, pc, idx, ba, prevname, readback, resp, xfers, err, errat, result>>

\* the status node is loaded before the call: SHORTSTAT.loadByte(abyte)
PresetStatus(abyte) ==
    /\ pc = "idle"
    /\ UNCHANGED <<tvars, cvars>>
    /\ call = NoCall
    /\ call' = OneCall("preset", "SHORTSTAT", <<>>)
    /\ shortstat' = loadByte(abyte)
    /\ UNCHANGED <<nodes, before, pc, idx, ba, prevname, readback, resp, xfers, err, errat, result>>

\* the end of a call: it returned (e = "none") or raised e at the place named
finish(e, where) ==
    /\ pc' = IF e = "none" THEN "done" ELSE "failed"
    /\ err' = e
    /\ errat' = IF e = "none" THEN "none" ELSE where

\* node.setVal(v), called by the application
Call_setVal(r, v) ==
    LET sv == setVal(nodes, r, v) IN
    /\ pc = "idle"
    /\ UNCHANGED <<tvars, cvars>>
    /\ UNCHANGED result
    /\ call' = OneCall("setVal", r, <<v>>)
    /\ before' = nodes
    /\ nodes' = sv.nodes
    /\ finish(sv.err, "setVal")
    /\ UNCHANGED <<shortstat, idx, ba, prevname, readback, resp, xfers>>

\* node.writeBytes(ba, value=v) on a fresh buffer, called by the application
Call_writeBytes(r, v) ==
    LET wb == writeBytes(nodes, r, ZeroFrame, v) IN
    /\ pc = "idle"
    /\ UNCHANGED <<tvars, cvars>>
    /\ UNCHANGED result
    /\ call' = OneCall("writeBytes", r, <<v>>)
    /\ before' = nodes
    /\ nodes' = wb.nodes
    /\ ba' = wb.ba
    /\ finish(wb.err, "build")
    /\ UNCHANGED <<shortstat, idx, prevname, readback, resp, xfers>>

\* node.loadBytes(frame), called by the application; the frame is kept in ba
Call_loadBytes(r, frame) ==
    LET ld == loadBytes(nodes, r, frame) IN
    /\ pc = "idle"
    /\ UNCHANGED <<tvars, cvars>>
    /\ UNCHANGED result
    /\ call' = OneCall("loadBytes", r, <<>>)
    /\ before' = nodes
    /\ nodes' = ld.nodes
    /\ ba' = frame
    /\ finish(ld.err, "load")
    /\ UNCHANGED <<shortstat, idx, prevname, readback, resp, xfers>>

\* TrinamicDriver.writeInt, lines 200-202
Call_writeInt(r, v) ==
    LET wb == writeBytes(nodes, r, ZeroFrame, v) IN
    /\ pc = "idle"
    /\ UNCHANGED <<tvars, cvars>>
    /\ UNCHANGED result
    /\ call' = OneCall("writeInt", r, <<v>>)
    /\ before' = nodes
    /\ nodes' = wb.nodes
    /\ ba' = wb.ba
    /\ xfers' = IF wb.err = "none"
                THEN <<Xfer("spi_write", wb.ba, NoResponse, "none", FALSE)>>
                ELSE <<>>
    /\ finish(wb.err, "build")
    /\ UNCHANGED <<shortstat, idx, prevname, readback, resp>>

\* TrinamicDriver.writeInt with regValue=None, lines 200-202: the register's
\* current value is written
Call_writeIntNone(r) ==
    LET wb == writeCurrent(nodes, r, ZeroFrame) IN
    /\ pc = "idle"
    /\ UNCHANGED <<tvars, cvars>>
    /\ call' = OneCall("writeIntNone", r, <<>>)
    /\ before' = nodes
    /\ nodes' = wb.nodes
    /\ ba' = wb.ba
    /\ xfers' = IF wb.err = "none"
                THEN <<Xfer("spi_write", wb.ba, NoResponse, "none", FALSE)>>
                ELSE <<>>
    /\ finish(wb.err, "build")
    /\ UNCHANGED <<shortstat, idx, prevname, readback, resp, result>>

\* SHORTSTAT.testFlag(flagbits), called by the application
Call_testFlag(flagbits) ==
    /\ pc = "idle"
    /\ UNCHANGED <<tvars, cvars>>
    /\ call' = FlagCall("testFlag", "SHORTSTAT", flagbits, FALSE)
    /\ before' = nodes
    /\ result' = testFlag(shortstat, flagbits)
    /\ finish("none", "none")
    /\ UNCHANGED <<nodes, shortstat, idx, ba, prevname, readback, resp, xfers>>

\* node.testFlags(flagbits) on a mixed register, called by the application
Call_testFlags(r, flagbits) ==
    LET tf == testFlags(nodes, r, flagbits) IN
    /\ pc = "idle"
    /\ UNCHANGED <<tvars, cvars>>
    /\ rclassOf(r) = "triMixed"
    /\ call' = FlagCall("testFlags", r, flagbits, FALSE)
    /\ before' = nodes
    /\ result' = tf.value
    /\ finish(tf.err, "flags")
    /\ UNCHANGED <<nodes, shortstat, idx, ba, prevname, readback, resp, xfers>>

\* node.setFlags(flagbits, on) on a mixed register, called by the application
Call_setFlags(r, flagbits, on) ==
    LET sf == setFlags(nodes, r, flagbits, on) IN
    /\ pc = "idle"
    /\ UNCHANGED <<tvars, cvars>>
    /\ rclassOf(r) = "triMixed"
    /\ call' = FlagCall("setFlags", r, flagbits, on)
    /\ before' = nodes
    /\ nodes' = sf.nodes
    /\ finish(sf.err, "flags")
    /\ UNCHANGED <<shortstat, idx, ba, prevname, readback, resp, xfers, result>>

\* subfield.set(v), called by the application
Call_subSet(s, v) ==
    LET st == subSet(nodes, s, v) IN
    /\ pc = "idle"
    /\ UNCHANGED <<tvars, cvars>>
    /\ call' = SubCall("sub.set", s, <<v>>)
    /\ before' = nodes
    /\ nodes' = st.nodes
    /\ finish(st.err, "set")
    /\ UNCHANGED <<shortstat, idx, ba, prevname, readback, resp, xfers, result>>

\* subfield.getCurrent(), called by the application
Call_subGet(s) ==
    /\ pc = "idle"
    /\ UNCHANGED <<tvars, cvars>>
    /\ call' = SubCall("sub.getCurrent", s, <<>>)
    /\ before' = nodes
    /\ result' = subGetCurrent(nodes, s)
    /\ finish("none", "none")
    /\ UNCHANGED <<nodes, shortstat, idx, ba, prevname, readback, resp, xfers>>

\* node.getCurrent() on a register, called by the application
Call_getCurrent(r) ==
    LET gc == getCurrentOf(nodes, r) IN
    /\ pc = "idle"
    /\ UNCHANGED <<tvars, cvars>>
    /\ call' = OneCall("getCurrent", r, <<>>)
    /\ before' = nodes
    /\ result' = gc.value
    /\ finish(gc.err, "getCurrent")
    /\ UNCHANGED <<nodes, shortstat, idx, ba, prevname, readback, resp, xfers>>

\* TrinamicDriver.readInt, lines 224-241: the read frame goes out twice, with
\* spi_write and with spi_xfer; the answer to the second is loaded
Call_readInt(r, rsp) ==
    LET frame == readBytes(r, ZeroFrame)
        ld == loadBytes(nodes, r, rsp.bytes)
        lenOk == rsp.len = FrameLen
        sent(loaded) == <<Xfer("spi_write", frame, NoResponse, "none", TRUE),
                          Xfer("spi_xfer", frame, rsp, loaded, TRUE)>>
    IN
    /\ pc = "idle"
    /\ UNCHANGED <<tvars, cvars>>
    /\ UNCHANGED result
    /\ call' = OneCall("readInt", r, <<>>)
    /\ before' = nodes
    /\ ba' = frame
    /\ UNCHANGED <<idx, prevname, readback>>
    /\ IF ~lenOk
       THEN /\ finish(AssertErr, "length")
            /\ xfers' = sent("none")
            /\ UNCHANGED <<nodes, shortstat, resp>>
       ELSE /\ xfers' = sent(r)
            /\ nodes' = ld.nodes
            /\ finish(ld.err, "load")
            /\ IF ld.err # "none"
               THEN UNCHANGED <<shortstat, resp>>
               ELSE /\ resp' = (r :> ld.nodes[r].curval)
                    /\ shortstat' = loadByte(rsp.bytes[1])

\* readWriteMultiple, lines 261-286: the arguments are taken in, the frame of
\* the first register is built and sent with spi_write
Call_readWriteMultiple(regList, isdict, vals, regActions) ==
    LET c == [op |-> "readWriteMultiple", regList |-> regList, isdict |-> isdict,
              vals |-> vals, regActions |-> regActions]
        rmap == IF isdict THEN dictOf(regList, vals) ELSE EmptyMap
        bf == buildFrame(nodes, ZeroFrame, c, 1, regActions[1])
        rb == wantsReadback(regActions[1])
    IN
    /\ pc = "idle"
    /\ UNCHANGED <<tvars, cvars>>
    /\ UNCHANGED result
    /\ call' = c
    /\ before' = nodes
    /\ resp' = rmap
    /\ UNCHANGED shortstat
    /\ IF ~actionsFit(regList, regActions)
       THEN /\ finish(AssertErr, "args")
            /\ UNCHANGED <<nodes, idx, ba, prevname, readback, xfers>>
       ELSE /\ prevname' = regList[1]
            /\ nodes' = bf.nodes
            /\ ba' = bf.ba
            /\ IF bf.err # "none"
               THEN /\ finish(bf.err, "build")
                    /\ idx' = 1
                    /\ UNCHANGED <<readback, xfers>>
               ELSE /\ xfers' = <<Xfer("spi_write", bf.ba, NoResponse, "none", rb)>>
                    /\ readback' = rb
                    /\ idx' = 2
                    /\ pc' = "loop"
                    /\ UNCHANGED <<err, errat>>

\* readWriteMultiple, lines 287-309: one pass of the loop, for regList[idx]
RWM_Step(rsp) ==
    LET action == call.regActions[useindex(call.regActions, idx)]
        bf == buildFrame(nodes, ba, call, idx, action)
        ld == loadInto(bf.nodes, resp, prevname, rsp.bytes)
        rb == wantsReadback(action)
    IN
    /\ pc = "loop"
    /\ UNCHANGED <<tvars, cvars>>
    /\ UNCHANGED result
    /\ moreOps(call, idx)
    /\ ba' = bf.ba
    /\ UNCHANGED <<shortstat, call, before>>
    /\ IF bf.err # "none"
       THEN /\ finish(bf.err, "build")
            /\ nodes' = bf.nodes
            /\ UNCHANGED <<idx, prevname, readback, resp, xfers>>
       ELSE IF ~stepLengthOk(readback, rsp)
       THEN /\ finish(AssertErr, "length")
            /\ nodes' = bf.nodes
            /\ xfers' = Append(xfers, Xfer("spi_xfer", bf.ba, rsp, "none", readback))
            /\ UNCHANGED <<idx, prevname, readback, resp>>
       ELSE IF readback /\ ld.err # "none"
       THEN /\ finish(ld.err, "load")
            /\ nodes' = ld.nodes
            /\ xfers' = Append(xfers, Xfer("spi_xfer", bf.ba, rsp, prevname, readback))
            /\ UNCHANGED <<idx, prevname, readback, resp>>
       ELSE /\ nodes' = IF readback THEN ld.nodes ELSE bf.nodes
            /\ resp' = IF readback THEN ld.resp ELSE resp
            /\ xfers' = Append(xfers, Xfer("spi_xfer", bf.ba, rsp,
                                           IF readback THEN prevname ELSE "none", rb))
            /\ prevname' = nextPrev(call, idx)
            /\ readback' = rb
            /\ idx' = idx + 1
            /\ UNCHANGED <<pc, err, errat>>

\* readWriteMultiple, lines 310-327: the last frame is sent once more with the
\* write bit cleared, SHORTSTAT takes the status byte, and resp is returned
RWM_Flush(rsp) ==
    LET fb == clearWriteBit(ba)
        ld == loadInto(nodes, resp, prevname, rsp.bytes)
    IN
    /\ pc = "loop"
    /\ UNCHANGED <<tvars, cvars>>
    /\ UNCHANGED result
    /\ ~moreOps(call, idx)
    /\ ba' = fb
    /\ UNCHANGED <<call, before, idx, prevname, readback>>
    /\ IF ~flushLengthOk(rsp)
       THEN /\ finish(AssertErr, "length")
            /\ xfers' = Append(xfers, Xfer("spi_xfer", fb, rsp, "none", readback))
            /\ UNCHANGED <<nodes, shortstat, resp>>
       ELSE /\ shortstat' = loadByte(rsp.bytes[1])
            /\ IF readback
               THEN /\ finish(ld.err, "load")
                    /\ nodes' = ld.nodes
                    /\ resp' = ld.resp
                    /\ xfers' = Append(xfers, Xfer("spi_xfer", fb, rsp, prevname, readback))
               ELSE /\ finish("none", "none")
                    /\ xfers' = Append(xfers, Xfer("spi_xfer", fb, rsp, "none", readback))
                    /\ UNCHANGED <<nodes, resp>>

\* the dict form needs distinct names; a list may name a register twice
BatchArgs ==
    {a \in [regList : SeqsUpTo(BatchNames, MaxOps), isdict : BOOLEAN,
            regActions : SeqsUpTo(ActionChars, MaxOps)] : a.isdict => distinct(a.regList)}

\* dict batches that name a mixed register.  IHOLD_IRUN goes with the value
\* None and GCONF with a value, as in the batch of tmc5130.__init__; the
\* list of three registers with 'RUW' has the shape of the head of that batch
\* (a read, GCONF marked 'U', then a mixed register written with None)
MixedLists ==
    {<<"GCONF">>, <<"IHOLD_IRUN">>, <<"VACTUAL", "GCONF">>, <<"GCONF", "VACTUAL">>,
     <<"IHOLD_IRUN", "GCONF">>, <<"VACTUAL", "IHOLD_IRUN">>,
     <<"VACTUAL", "GCONF", "IHOLD_IRUN">>}

MixedActions ==
    {<<"W">>, <<"U">>, <<"R">>, <<"R", "W">>, <<"W", "W">>, <<"U", "R">>, <<"R", "U", "W">>}

\* the values of such a batch: None for IHOLD_IRUN, 5 for the others
mixedVals(regList) ==
    [k \in DOMAIN regList |-> IF regList[k] = "IHOLD_IRUN" THEN NoValue ELSE 5]

MixedBatchArgs == [regList : MixedLists, regActions : MixedActions]

Next ==
    \/ \E r \in RegNames, v \in PresetVals : Preset(r, v)
    \/ \E r \in RegNames, frame \in PresetFrames : PresetLoad(r, frame)
    \/ \E abyte \in PresetStatusVals : PresetStatus(abyte)
    \/ \E r \in RegNames : Call_writeIntNone(r)
    \/ \E flagbits \in FlagVals : Call_testFlag(flagbits)
    \/ \E r \in RegNames, flagbits \in FlagVals : Call_testFlags(r, flagbits)
    \/ \E r \in RegNames, flagbits \in FlagVals, on \in BOOLEAN : Call_setFlags(r, flagbits, on)
    \/ \E s \in SubNames : \E v \in SubVals(s) : Call_subSet(s, v)
    \/ \E s \in SubNames : Call_subGet(s)
    \/ \E r \in RegNames : Call_getCurrent(r)
    \/ \E r \in RegNames : \E v \in TestVals(r) : Call_setVal(r, v)
    \/ \E r \in RegNames : \E v \in TestVals(r) : Call_writeBytes(r, v)
    \/ \E r \in RegNames, frame \in NodeFrames : Call_loadBytes(r, frame)
    \/ \E r \in RegNames : \E v \in TestVals(r) : Call_writeInt(r, v)
    \/ \E r \in RegNames, rsp \in Responses : Call_readInt(r, rsp)
    \/ /\ pc = "idle"
       /\ call = NoCall
       /\ \E a \in BatchArgs :
             \E vals \in IF a.isdict THEN [DOMAIN a.regList -> BatchVals] ELSE {<<>>} :
                Call_readWriteMultiple(a.regList, a.isdict, vals, a.regActions)
    \/ PresetSubfields
    \/ /\ pc = "idle"
       /\ call \in {NoCall, OneCall("preset", "IHOLD_IRUN", <<>>)}
       /\ \E a \in MixedBatchArgs :
             Call_readWriteMultiple(a.regList, TRUE, mixedVals(a.regList), a.regActions)
    \/ \E rsp \in Responses : RWM_Step(rsp)
    \/ \E rsp \in Responses : RWM_Flush(rsp)

Spec == Init /\ [][Next]_vars

(***************************************************************************)
(* The tree of the session, used on its own: the application attaches      *)
(* nodes to the tree the driver built and looks nodes up by path.          *)
(***************************************************************************)
\* parent.makeChild(_cclass=Tree_dict, name=name), called by the application
Call_makeChild(parent, name) ==
    LET mc == makeChild(tree, parent, name) IN
    /\ Len(tree) < Len(Constructed) + MaxAttach
    /\ tcall' = [op |-> "makeChild", node |-> parent, name |-> name, path |-> <<>>]
    /\ tbefore' = tree
    /\ tree' = mc.tree
    /\ tres' = [err |-> mc.err, node |-> mc.node]
    /\ UNCHANGED <<dvars, cvars>>

\* node[nname], called by the application; splitname is nname split at '/'.
\* One lookup is followed from each state of the tree: the next call is an
\* attach
Call_getitem(n, splitname) ==
    /\ tcall.op \notin {"getitem", "nextChild"}
    /\ tcall' = [op |-> "getitem", node |-> n, name |-> "", path |-> splitname]
    /\ tbefore' = tree
    /\ tres' = getitem(tree, n, splitname)
    /\ UNCHANGED tree
    /\ UNCHANGED <<dvars, cvars>>

\* node.nextChild(name, forward=forward, wrap=wrap), called by the
\* application; like a lookup it is followed by an attach
Call_nextChild(n, name, forward, wrap) ==
    /\ tcall.op \notin {"getitem", "nextChild"}
    /\ tcall' = [op |-> "nextChild", node |-> n, name |-> name, path |-> <<>>,
                 forward |-> forward, wrap |-> wrap]
    /\ tbefore' = tree
    /\ tres' = nextChild(tree, n, name, forward, wrap)
    /\ UNCHANGED tree
    /\ UNCHANGED <<dvars, cvars>>

TreeNext ==
    \/ \E parent \in AttachTo, name \in AttachNames : Call_makeChild(parent, name)
    \/ \E n \in FromNodes(tree), splitname \in Paths : Call_getitem(n, splitname)
    \/ \E n \in FromNodes(tree) : \E name \in StartNames(tree, n), forward \in BOOLEAN, wrap \in BOOLEAN :
          Call_nextChild(n, name, forward, wrap)

TreeSpec == Init /\ [][TreeNext]_vars

(***************************************************************************)
(* Two threads of the application call the same session.  The code has no  *)
(* lock: every invocation keeps its frame buffer, prevname, resp and the   *)
(* answer of its last exchange in locals and shares the nodes, SHORTSTAT   *)
(* and the SPI channel.  A thread can be suspended between any two of its  *)
(* accesses to what is shared, so each is a step of its own, in the order  *)
(* of the code: a transfer (a pigpio call), the load of its answer into a  *)
(* node, the read of the node's curval for resp, the load of SHORTSTAT.    *)
(* The invocations read: readInt, and readWriteMultiple over a list with   *)
(* the single action 'R'.  The chip answers every exchange with the data   *)
(* of the register the frame before it addressed, whichever thread sent    *)
(* that frame.  With locking the application lets an invocation start only *)
(* when no other runs.                                                     *)
(***************************************************************************)
\* the most registers a batch of a thread names
MaxConcOps == 2

\* the registers the threads read: a signed, a plain and a mixed register
ConcNames == {"VACTUAL", "ENCMODE", "GCONF"}

\* what the chip holds in them
ChipVal == [VACTUAL |-> 7, ENCMODE |-> 33, GCONF |-> 4]

\* the status byte the chip sends first in every answer
ChipStatus == 9

\* the register of the table a frame addresses
chipReg(a) == IF \E r \in ConcNames : addr(r) = a
              THEN CHOOSE r \in ConcNames : addr(r) = a ELSE "none"

\* the answer to an exchange: the data of the register addressed by the frame
\* the chip received before
chipAnswer(a) ==
    IF chipReg(a) = "none" THEN <<ChipStatus, 0, 0, 0, 0>>
    ELSE <<ChipStatus, 0, 0, 0, ChipVal[chipReg(a)]>>

\* the invocations: readInt(name) and readWriteMultiple(list, 'R')
Invocations ==
    {[op |-> "readInt", regList |-> <<r>>] : r \in ConcNames} \cup
    {[op |-> "readWriteMultiple", regList |-> l] :
        l \in {m \in SeqsUpTo(ConcNames, MaxConcOps) : distinct(m)}}

\* the read frame of the k-th register of an invocation, built in a buffer
\* whose data bytes are zero (lines 224-225, 274-277, 290-291)
readFrame(inv, k) == readBytes(inv.regList[k], ZeroFrame)

\* the flush of a thread's invocation has been exchanged
flushSent(t) == tpos[t] = Len(tinv[t].regList) + 1

\* a thread enters readInt or readWriteMultiple
T_call(t, inv) ==
    /\ tpc[t] = "idle"
    /\ locking => \A u \in Threads : tpc[u] # "run"
    /\ tinv' = [tinv EXCEPT ![t] = inv]
    /\ tpc' = [tpc EXCEPT ![t] = "run"]
    /\ tpos' = [tpos EXCEPT ![t] = 0]
    /\ tprev' = [tprev EXCEPT ![t] = inv.regList[1]]
    /\ tresp' = [tresp EXCEPT ![t] = EmptyMap]
    /\ tat' = [tat EXCEPT ![t] = "write"]
    /\ UNCHANGED <<locking, tback, tsrc, chipreq, loadlog, nodes, shortstat, svars, tvars>>

\* lines 227, 283: spi_write of the frame of the first register
T_write(t) ==
    /\ tpc[t] = "run" /\ tat[t] = "write"
    /\ chipreq' = readFrame(tinv[t], 1)[1] % 128
    /\ tpos' = [tpos EXCEPT ![t] = 1]
    /\ tat' = [tat EXCEPT ![t] = "xfer"]
    /\ UNCHANGED <<locking, tinv, tpc, tprev, tresp, tback, tsrc, loadlog, nodes, shortstat,
                   svars, tvars>>

\* lines 287-297: a pass of the loop exchanges the frame of the next
\* register; the answer stays in the thread's bytesback
T_exchange(t) ==
    LET k == tpos[t] + 1 IN
    /\ tpc[t] = "run" /\ tat[t] = "xfer"
    /\ tinv[t].op = "readWriteMultiple"
    /\ moreOps(tinv[t], k)
    /\ chipreq' = readFrame(tinv[t], k)[1] % 128
    /\ tback' = [tback EXCEPT ![t] = chipAnswer(chipreq)]
    /\ tsrc' = [tsrc EXCEPT ![t] = chipReg(chipreq)]
    /\ tpos' = [tpos EXCEPT ![t] = k]
    /\ tat' = [tat EXCEPT ![t] = "load"]
    /\ UNCHANGED <<locking, tinv, tpc, tprev, tresp, loadlog, nodes, shortstat, svars, tvars>>

\* lines 228 and 310-311: the last frame is exchanged once more as a read.
\* readInt goes on to load the answer, readWriteMultiple to SHORTSTAT
T_flush(t) ==
    LET n == Len(tinv[t].regList)
        fb == clearWriteBit(readFrame(tinv[t], n))
    IN
    /\ tpc[t] = "run" /\ tat[t] = "xfer"
    /\ ~moreOps(tinv[t], tpos[t] + 1)
    /\ chipreq' = fb[1] % 128
    /\ tback' = [tback EXCEPT ![t] = chipAnswer(chipreq)]
    /\ tsrc' = [tsrc EXCEPT ![t] = chipReg(chipreq)]
    /\ tpos' = [tpos EXCEPT ![t] = tpos[t] + 1]
    /\ tat' = [tat EXCEPT ![t] = IF tinv[t].op = "readInt" THEN "load" ELSE "status"]
    /\ UNCHANGED <<locking, tinv, tpc, tprev, tresp, loadlog, nodes, shortstat, svars, tvars>>

\* lines 233, 302, 317: bytesback is loaded into the node of prevname; an
\* exception of the load ends the invocation
T_load(t) ==
    LET ld == loadBytes(nodes, tprev[t], tback[t]) IN
    /\ tpc[t] = "run" /\ tat[t] = "load"
    /\ nodes' = ld.nodes
    /\ loadlog' = IF ld.err # "none" /\ ld.nodes = nodes THEN loadlog
                  ELSE loadlog \cup {[node |-> tprev[t], of |-> tsrc[t]]}
    /\ IF ld.err # "none"
       THEN /\ tpc' = [tpc EXCEPT ![t] = "failed"]
            /\ UNCHANGED tat
       ELSE /\ tat' = [tat EXCEPT ![t] = "record"]
            /\ UNCHANGED tpc
    /\ UNCHANGED <<locking, tinv, tpos, tprev, tresp, tback, tsrc, chipreq, shortstat,
                   svars, tvars>>

\* lines 234, 303, 318: the node's curval, as it is now, goes to resint or
\* resp[prevname]; in the loop prevname moves on (line 307), after the flush
\* readWriteMultiple returns, and readInt goes on to SHORTSTAT
T_record(t) ==
    /\ tpc[t] = "run" /\ tat[t] = "record"
    /\ tresp' = [tresp EXCEPT ![t] = (tprev[t] :> nodes[tprev[t]].curval) @@ tresp[t]]
    /\ IF tinv[t].op = "readInt"
       THEN /\ tat' = [tat EXCEPT ![t] = "status"]
            /\ UNCHANGED <<tpc, tprev>>
       ELSE IF flushSent(t)
       THEN /\ tpc' = [tpc EXCEPT ![t] = "done"]
            /\ UNCHANGED <<tat, tprev>>
       ELSE /\ tprev' = [tprev EXCEPT ![t] = nextPrev(tinv[t], tpos[t])]
            /\ tat' = [tat EXCEPT ![t] = "xfer"]
            /\ UNCHANGED tpc
    /\ UNCHANGED <<locking, tinv, tpos, tback, tsrc, chipreq, loadlog, nodes, shortstat,
                   svars, tvars>>

\* lines 235, 315: the first byte of bytesback goes to SHORTSTAT; readInt
\* returns, readWriteMultiple goes on to load the answer of the flush
T_status(t) ==
    /\ tpc[t] = "run" /\ tat[t] = "status"
    /\ shortstat' = loadByte(tback[t][1])
    /\ IF tinv[t].op = "readInt"
       THEN /\ tpc' = [tpc EXCEPT ![t] = "done"]
            /\ UNCHANGED tat
       ELSE /\ tat' = [tat EXCEPT ![t] = "load"]
            /\ UNCHANGED tpc
    /\ UNCHANGED <<locking, tinv, tpos, tprev, tresp, tback, tsrc, chipreq, loadlog, nodes,
                   svars, tvars>>

ConcInit == SessionInit /\ locking \in BOOLEAN

ConcNext ==
    \/ \E t \in Threads, inv \in Invocations : T_call(t, inv)
    \/ \E t \in Threads : T_write(t)
    \/ \E t \in Threads : T_exchange(t)
    \/ \E t \in Threads : T_flush(t)
    \/ \E t \in Threads : T_load(t)
    \/ \E t \in Threads : T_record(t)
    \/ \E t \in Threads : T_status(t)

ConcSpec == ConcInit /\ [][ConcNext]_vars

(***************************************************************************)
(* What the claims speak of, stated apart from the operators above.        *)
(***************************************************************************)
isRWM == call.op = "readWriteMultiple"

\* the number of operations of the batch
NOps == Len(call.regList)

\* the action an operation is marked with: regActions[i], or the single action
markedAction(k) ==
    IF Len(call.regActions) = 1 THEN call.regActions[1] ELSE call.regActions[k]

\* the action the loop applies to an operation: the first operation and a
\* single action aside, the action of the operation before it
appliedAction(k) ==
    IF Len(call.regActions) = 1 \/ k = 1 THEN call.regActions[1] ELSE call.regActions[k - 1]

\* the register address a frame carries
frameAddr(frame) == frame[1] % 128

\* the 32 bit value of a frame's data bytes
frameValue(bytes) == bytes[2] * 16777216 + bytes[3] * 65536 + bytes[4] * 256 + bytes[5]

\* the value a register of the table decodes from an answer: the low sigbits
\* bits, as two's complement for a signed register; all of it for triHex,
\* triMixed and triEnum
decodedValue(r, bytes) ==
    LET w == RegTable[r].sigbits
        raw == frameValue(bytes) % Pow2(w)
    IN IF RegTable[r].rclass \in {"triHex", "triMixed", "triEnum"} THEN frameValue(bytes)
       ELSE IF RegTable[r].rclass = "triSignedint" /\ raw >= Pow2(w - 1) THEN raw - Pow2(w)
       ELSE raw

\* the frame that writes v to r: the address with bit 7 set, then the value,
\* cut to sigbits bits for a bounded register, high byte first
writeFrameOf(r, v) ==
    LET m == IF isInt(r) THEN v % Pow2(RegTable[r].sigbits) ELSE v IN
    <<addr(r) + 128, (m \div 16777216) % 256, (m \div 65536) % 256, (m \div 256) % 256, m % 256>>

\* the value operation k of a batch writes: its own, or for None the raw
\* value its register held when the batch began
sentValue(k) ==
    IF call.vals[k] = NoValue THEN before[call.regList[k]].curval ELSE call.vals[k]

\* the flush of the batch is in the log
flushed == isRWM /\ Len(xfers) = NOps + 1

(***************************************************************************)
(* C1: in readWriteMultiple the answer of the k-th answering exchange      *)
(* (k = 1..N, the last being the flush) is loaded into the register of     *)
(* operation k-1 and no other, and only when that operation left a read    *)
(* pending; no other node changes by that answer (the register whose write *)
(* frame the same pass built is set by the build, before the exchange).    *)
(***************************************************************************)
C1_AnswerGoesToPreviousOp ==
    [][(isRWM /\ pc = "loop" /\ Len(xfers') = Len(xfers) + 1) =>
          LET k == Len(xfers)
              x == xfers'[k + 1]
              target == call.regList[k]
              built == IF isWriteFrame(x.frame) /\ k + 1 <= NOps THEN {call.regList[k + 1]} ELSE {}
          IN /\ x.kind = "spi_xfer"
             /\ x.loaded \in {"none", target}
             /\ x.loaded = target => xfers[k].rb
             /\ (xfers[k].rb /\ x.len = FrameLen) => x.loaded = target
             /\ \A r \in RegNames \ built : nodes'[r] # nodes[r] => r = x.loaded
             /\ (x.loaded = target /\ pc' # "failed") =>
                   nodes'[target].curval = decodedValue(target, x.back)]_vars

\* a batch of three registers, the last one written only: the answers of the
\* two steps were loaded into the first and the second register, and the
\* answer of the flush into none
C1_Witness ==
    /\ isRWM /\ pc = "done" /\ NOps = 3 /\ Len(xfers) = 4
    /\ distinct(call.regList)
    /\ xfers[2].loaded = call.regList[1]
    /\ xfers[3].loaded = call.regList[2]
    /\ xfers[4].loaded = "none" /\ xfers[4].len = FrameLen
    /\ xfers[2].back # xfers[3].back
    /\ nodes[call.regList[1]].curval = decodedValue(call.regList[1], xfers[2].back)
    /\ nodes[call.regList[2]].curval = decodedValue(call.regList[2], xfers[3].back)
    /\ nodes[call.regList[3]].curval = call.vals[3]

(***************************************************************************)
(* C2: with one action per register (N > 1), the frame of operation i is   *)
(* built from action i: a read frame iff regActions[i] is 'R', a write     *)
(* frame iff it is 'W' or 'U', and a read is left pending iff it is not    *)
(* 'W'.  The loop takes regActions[i-1] for operation i >= 1, so this      *)
(* fails.                                                                  *)
(***************************************************************************)
C2_FrameFromOwnAction ==
    (isRWM /\ NOps > 1 /\ Len(call.regActions) = NOps) =>
       \A i \in 1..NOps : i <= Len(xfers) =>
          /\ ~isWriteFrame(xfers[i].frame) <=> call.regActions[i] = "R"
          /\ isWriteFrame(xfers[i].frame) <=> call.regActions[i] \in {"W", "U"}
          /\ xfers[i].rb <=> call.regActions[i] # "W"

(***************************************************************************)
(* C3: a readWriteMultiple over N >= 1 operations that returns has issued  *)
(* exactly N+1 transfers: the seed (spi_write), N-1 steps and the flush,   *)
(* the k-th carrying the address of the k-th register and the flush that   *)
(* of the last.                                                            *)
(***************************************************************************)
C3_TransfersPerBatch ==
    (isRWM /\ pc = "done") =>
       /\ Len(xfers) = NOps + 1
       /\ xfers[1].kind = "spi_write"
       /\ \A k \in 2..(NOps + 1) : xfers[k].kind = "spi_xfer"
       /\ \A k \in 1..NOps : frameAddr(xfers[k].frame) = addr(call.regList[k])
       /\ frameAddr(xfers[NOps + 1].frame) = addr(call.regList[NOps])

\* a batch of three different registers has returned
C3_Witness ==
    /\ isRWM /\ pc = "done" /\ NOps = 3 /\ Len(xfers) = 4
    /\ distinct(call.regList)

(***************************************************************************)
(* C4 as claimed: the mapping returned has an entry with the decoded       *)
(* value for every operation marked 'R' or 'U' and none for an operation   *)
(* marked 'W', also when the operations came as a dict.                    *)
(***************************************************************************)
C4_NoEntryForWrites ==
    (isRWM /\ pc = "done") =>
       \A k \in 1..NOps :
          LET name == call.regList[k] IN
          /\ markedAction(k) \in {"R", "U"} =>
                name \in DOMAIN resp /\ resp[name] = nodes[name].curval
          /\ markedAction(k) = "W" => name \notin DOMAIN resp

(***************************************************************************)
(* C4 as amended: the mapping returned holds the decoded value for every   *)
(* operation the loop treated as 'R' or 'U' (by regActions[0] for the      *)
(* first operation or a single action, else by regActions[i-1]).  From a   *)
(* list it has no other entry.  From a dict it is that dict: every key     *)
(* keeps an entry, and an operation treated as 'W' keeps the value         *)
(* supplied.                                                               *)
(***************************************************************************)
C4_ReturnedMapping ==
    (isRWM /\ pc = "done") =>
       /\ \A k \in 1..NOps :
             LET name == call.regList[k] IN
             /\ (appliedAction(k) # "W" /\ \A j \in (k + 1)..NOps : call.regList[j] # name) =>
                   /\ name \in DOMAIN resp
                   /\ resp[name] = decodedValue(name, xfers[k + 1].back)
             /\ (appliedAction(k) = "W" /\ call.isdict) =>
                   name \in DOMAIN resp /\ resp[name] = call.vals[k]
       /\ ~call.isdict => DOMAIN resp = {call.regList[k] : k \in {j \in 1..NOps : appliedAction(j) # "W"}}
       /\ call.isdict => DOMAIN resp = {call.regList[k] : k \in 1..NOps}

\* a dict batch has returned with its first register written only and its
\* last one read
C4_Witness ==
    /\ isRWM /\ pc = "done" /\ call.isdict /\ NOps = 3
    /\ appliedAction(1) = "W" /\ appliedAction(3) = "R"
    /\ resp[call.regList[1]] = call.vals[1]
    /\ resp[call.regList[3]] = decodedValue(call.regList[3], xfers[4].back)
    /\ resp[call.regList[3]] # call.vals[3]

(***************************************************************************)
(* C5 as claimed: in readWriteMultiple, after every exchange that returns  *)
(* an answer (each step and the flush) SHORTSTAT holds the status byte of  *)
(* that answer, read pending or not.                                       *)
(***************************************************************************)
C5_StatusAfterEveryExchange ==
    (isRWM /\ pc \in {"loop", "done"} /\ Len(xfers) >= 2 /\ xfers[Len(xfers)].len = FrameLen) =>
       shortstat = xfers[Len(xfers)].back[1]

(***************************************************************************)
(* C5 as amended: readWriteMultiple sets SHORTSTAT at the flush only: once *)
(* the flush has returned a frame of 5 bytes SHORTSTAT holds its status    *)
(* byte, read pending or not, and until then (through the seed and every   *)
(* step) SHORTSTAT keeps the value it had when the call began.             *)
(***************************************************************************)
C5_StatusFromFlushOnly ==
    isRWM =>
       /\ (flushed /\ xfers[NOps + 1].len = FrameLen) => shortstat = xfers[NOps + 1].back[1]
       /\ ~(flushed /\ xfers[NOps + 1].len = FrameLen) => shortstat = 0

\* a step has returned a status byte that SHORTSTAT did not take, and a flush
\* with no read pending has set it
C5_Witness ==
    /\ isRWM /\ pc = "done" /\ NOps = 2
    /\ ~readback
    /\ xfers[2].len = FrameLen /\ xfers[2].back[1] # xfers[3].back[1]
    /\ shortstat = xfers[3].back[1] /\ shortstat # 0
(***************************************************************************)
(* C6: a validation error of a write in a batch (value out of range,       *)
(* register not writeable) is raised before any transfer is issued for     *)
(* the failing operation: when it propagates from operation i, exactly the *)
(* frames of the i operations before it have gone out, none carries the    *)
(* failing register, a register written before it holds its new value (no  *)
(* rollback) and, for a value out of range, the failing register's cached  *)
(* value is as it was.                                                     *)
(***************************************************************************)
C6_ValidationBeforeTransfer ==
    (isRWM /\ pc = "failed" /\ errat = "build" /\ err \in {RangeErr, AccessErr}) =>
       LET bad == call.regList[idx] IN
       /\ Len(xfers) = idx - 1
       /\ \A k \in 1..(idx - 1) :
             /\ frameAddr(xfers[k].frame) = addr(call.regList[k])
             /\ frameAddr(xfers[k].frame) # addr(bad)
             /\ (isWriteFrame(xfers[k].frame) /\ (k = idx - 1 \/ ~xfers[k].rb)) =>
                   /\ xfers[k].frame = writeFrameOf(call.regList[k], call.vals[k])
                   /\ nodes[call.regList[k]].curval = call.vals[k]
       /\ err = RangeErr => nodes[bad] = before[bad]
       /\ err = RangeErr <=> (isInt(bad) /\ ~(minval(bad) <= call.vals[idx] /\ call.vals[idx] <= maxval(bad)))

\* the batch [W(X, valid), W(Y, out of range)]: one transfer, X set, Y as it was
C6_Witness ==
    /\ isRWM /\ pc = "failed" /\ err = RangeErr /\ errat = "build"
    /\ NOps = 2 /\ idx = 2 /\ call.regActions = <<"W">>
    /\ Len(xfers) = 1
    /\ xfers[1].frame = writeFrameOf(call.regList[1], call.vals[1])
    /\ nodes[call.regList[1]].curval = call.vals[1]
    /\ nodes[call.regList[1]] # before[call.regList[1]]
    /\ nodes[call.regList[2]] = before[call.regList[2]]

(***************************************************************************)
(* C7: whenever an exchange of readInt or readWriteMultiple returns a      *)
(* length other than 5 the call fails, whether or not a read was pending.  *)
(* A step of the loop tests the length under readback only, so this fails. *)
(***************************************************************************)
C7_BadLengthFails ==
    call.op \in {"readInt", "readWriteMultiple"} =>
       \A k \in DOMAIN xfers :
          (xfers[k].kind = "spi_xfer" /\ xfers[k].len # FrameLen) => pc = "failed"

(***************************************************************************)
(* C8: readInt issues exactly two transfers carrying the same read frame   *)
(* and decodes the answer to the second into the register; writeInt        *)
(* issues exactly one transfer, carrying the write frame, and decodes      *)
(* nothing.                                                                *)
(***************************************************************************)
C8_SingleRegisterTransfers ==
    LET r == call.regList[1] IN
    /\ call.op = "readInt" =>
          /\ Len(xfers) = 2
          /\ xfers[1].kind = "spi_write" /\ xfers[2].kind = "spi_xfer"
          /\ xfers[1].frame = <<addr(r), 0, 0, 0, 0>>
          /\ xfers[2].frame = xfers[1].frame
          /\ xfers[2].len = FrameLen <=> xfers[2].loaded = r
          /\ pc = "done" =>
                /\ nodes[r].curval = decodedValue(r, xfers[2].back)
                /\ resp = (r :> nodes[r].curval)
          /\ \A q \in RegNames \ {r} : nodes[q] = before[q]
    /\ (call.op = "writeInt" /\ pc = "done") =>
          /\ Len(xfers) = 1
          /\ xfers[1].kind = "spi_write"
          /\ xfers[1].frame = writeFrameOf(r, call.vals[1])
          /\ xfers[1].loaded = "none"
          /\ nodes[r].curval = call.vals[1]
          /\ \A q \in RegNames \ {r} : nodes[q] = before[q]
    /\ (call.op = "writeInt" /\ pc = "failed") => xfers = <<>>

\* a readInt has returned a negative value decoded from the second answer
C8_Witness ==
    /\ call.op = "readInt" /\ pc = "done"
    /\ Len(xfers) = 2
    /\ nodes[call.regList[1]].curval = -2
    /\ nodes[call.regList[1]] # before[call.regList[1]]
(***************************************************************************)
(* The bounds of a bounded register as the table gives them: 0 and         *)
(* 2^sigbits-1, or the maxval of the entry, for triPosint;                 *)
(* -2^(sigbits-1) and 2^(sigbits-1)-1 for triSignedint.                    *)
(***************************************************************************)
tableMax(r) ==
    IF RegTable[r].rclass = "triSignedint" THEN Pow2(RegTable[r].sigbits - 1) - 1
    ELSE IF RegTable[r].maxval # -1 THEN RegTable[r].maxval
    ELSE Pow2(RegTable[r].sigbits) - 1

tableMin(r) ==
    IF RegTable[r].rclass = "triSignedint" THEN -Pow2(RegTable[r].sigbits - 1) ELSE 0

inBounds(r, v) == tableMin(r) <= v /\ v <= tableMax(r)

(***************************************************************************)
(* C9 as claimed: on a bounded integer register, setting a value through   *)
(* setVal or writeBytes fails exactly when the value is outside            *)
(* [minval, maxval], and on failure the cached value is unchanged.         *)
(***************************************************************************)
C9_FailsIffOutOfRange ==
    (call.op \in {"setVal", "writeBytes"} /\ isInt(call.regList[1])) =>
       LET r == call.regList[1]
           v == call.vals[1]
       IN /\ pc = "failed" <=> ~inBounds(r, v)
          /\ pc = "failed" => nodes[r] = before[r]

(***************************************************************************)
(* C9 as amended: on a bounded integer register setVal fails exactly when  *)
(* the value is outside [minval, maxval]; writeBytes fails exactly when    *)
(* the value is outside [minval, maxval] or the register is not            *)
(* writeable.  minval and maxval pass the range test, a value that passes  *)
(* it becomes the cached value, and on a range failure the cached value    *)
(* is unchanged.                                                           *)
(***************************************************************************)
C9_RangeCheck ==
    (call.op \in {"setVal", "writeBytes"} /\ isInt(call.regList[1])) =>
       LET r == call.regList[1]
           v == call.vals[1]
       IN /\ pc \in {"done", "failed"}
          /\ call.op = "setVal" => (pc = "failed" <=> ~inBounds(r, v))
          /\ call.op = "writeBytes" => (pc = "failed" <=> (~inBounds(r, v) \/ ~writeable(r)))
          /\ err = RangeErr <=> ~inBounds(r, v)
          /\ inBounds(r, v) => nodes[r] = [curval |-> v, isset |-> TRUE]
          /\ ~inBounds(r, v) => nodes[r] = before[r]
          /\ \A q \in RegNames \ {r} : nodes[q] = before[q]

\* writeBytes of maxval+1 to VMAX, whose maxval is set by the table, has
\* failed and left the preset value
C9_Witness ==
    /\ call.op = "writeBytes" /\ call.regList = <<"VMAX">>
    /\ call.vals[1] = tableMax("VMAX") + 1
    /\ call.vals[1] <= mask("VMAX")
    /\ pc = "failed" /\ err = RangeErr
    /\ nodes["VMAX"].curval \in PresetVals

(***************************************************************************)
(* C10: loadBytes on triPosint masks the unpacked value to sigbits bits    *)
(* before it validates: for every frame whose masked value is <= maxval    *)
(* the load succeeds and the cached value becomes the masked value, also   *)
(* with bits set above sigbits.  The code hands setVal the unmasked value  *)
(* and applies the mask to setVal's result, None, so this fails.           *)
(***************************************************************************)
C10_PosintLoadMasks ==
    (call.op = "loadBytes" /\ RegTable[call.regList[1]].rclass = "triPosint") =>
       LET r == call.regList[1]
           masked == frameValue(ba) % Pow2(RegTable[r].sigbits)
       IN masked <= tableMax(r) =>
             /\ pc = "done"
             /\ nodes[r].curval = masked

(***************************************************************************)
(* C11: loadBytes on triSignedint masks the unpacked value to sigbits bits *)
(* and extends the sign: for every frame the load succeeds, the cached     *)
(* value v lies in -2^(sigbits-1) .. 2^(sigbits-1)-1 and v mod 2^sigbits   *)
(* is the frame's value mod 2^sigbits; v is that value less 2^sigbits when *)
(* bit sigbits-1 is set, and that value otherwise.  Checked for the widths *)
(* 2, 24 and 30 of the table.                                              *)
(***************************************************************************)
C11_SignedLoad ==
    (call.op = "loadBytes" /\ rclassOf(call.regList[1]) = "triSignedint") =>
       LET r == call.regList[1]
           w == RegTable[r].sigbits
           raw == frameValue(ba) % Pow2(w)
           v == nodes[r].curval
       IN /\ pc = "done"
          /\ -Pow2(w - 1) <= v /\ v <= Pow2(w - 1) - 1
          /\ v % Pow2(w) = raw
          /\ v = IF (raw \div Pow2(w - 1)) % 2 = 1 THEN raw - Pow2(w) ELSE raw

\* a frame with the sign bit of a 24 bit register set, and a bit above it, has
\* been loaded as a negative value
C11_Witness ==
    /\ call.op = "loadBytes" /\ call.regList = <<"VACTUAL">>
    /\ ba = <<32, 1, 255, 255, 254>>
    /\ pc = "done"
    /\ nodes["VACTUAL"].curval = -2

(***************************************************************************)
(* C12: frame round trip.  For every writeable bounded or triHex register  *)
(* and every value v that writeBytes accepts, unpackBytes of the frame     *)
(* that writeBytes(v) produced is v & mask, mask being 2^sigbits-1, and    *)
(* 2^32-1 for triHex; and loading that frame back into a signed register   *)
(* gives the cached value v.  Stated for the frames whose value is below   *)
(* 2^31, where v & (2^32-1) is v.                                          *)
(***************************************************************************)
C12_RoundTrip ==
    (/\ call.op \in {"writeBytes", "writeInt"}
     /\ pc = "done"
     /\ rclassOf(call.regList[1]) \in {"triPosint", "triSignedint", "triHex"}
     /\ ba[2] < 128) =>
       LET r == call.regList[1]
           v == call.vals[1]
           back == loadBytes(nodes, r, ba)
       IN /\ isWriteFrame(ba)
          /\ unpackBytes(ba) = IF isInt(r) THEN v % Pow2(RegTable[r].sigbits) ELSE v
          /\ rclassOf(r) = "triSignedint" =>
                /\ back.err = "none"
                /\ back.nodes[r].curval = v

\* the least value of a 30 bit signed register has been written: the frame
\* carries 2^29, which loads back as -2^29
C12_Witness ==
    /\ call.op = "writeBytes" /\ call.regList = <<"SIGNED30">>
    /\ call.vals[1] = -536870912
    /\ pc = "done"
    /\ ba = <<254, 32, 0, 0, 0>>
    /\ nodes["SIGNED30"].curval = -536870912

(***************************************************************************)
(* C13: every frame handed to the transport has in byte 0 the address      *)
(* (0..127) of the register it is for, with bit 7 set exactly when the     *)
(* frame was built as a write, and in a write frame bytes 1..4 are the     *)
(* bytes of the masked value, high byte first, each in 0..255.  The frames *)
(* are those of writeInt, readInt and readWriteMultiple; in a batch a      *)
(* frame is a write when the loop built it with writeBytes, and the flush  *)
(* repeats the last frame as a read.                                       *)
(***************************************************************************)
C13_FrameLayout ==
    \A k \in 1..Len(xfers) :
       LET f == xfers[k].frame
           reg == IF isRWM THEN call.regList[IF k <= NOps THEN k ELSE NOps] ELSE call.regList[1]
           isWrite == IF isRWM THEN k <= NOps /\ appliedAction(k) # "R"
                      ELSE call.op \in {"writeInt", "writeIntNone"}
           value == IF isRWM THEN sentValue(k)
                    ELSE IF call.op = "writeInt" THEN call.vals[1]
                    ELSE nodes[reg].curval
       IN /\ Len(f) = FrameLen
          /\ \A i \in 1..FrameLen : f[i] \in 0..255
          /\ addr(reg) \in 0..127
          /\ f[1] % 128 = addr(reg)
          /\ (f[1] >= 128) <=> isWrite
          /\ isWrite => f = writeFrameOf(reg, value)

\* writeInt has sent -2^23 to a 24 bit register: the masked value 2^23 under
\* the address with bit 7 set
C13_Witness ==
    /\ call.op = "writeInt" /\ call.regList = <<"VACTUAL">> /\ call.vals = <<-8388608>>
    /\ Len(xfers) = 1
    /\ xfers[1].frame = <<162, 0, 128, 0, 0>>

(***************************************************************************)
(* The bits of a parent's raw value x that lie outside the subfield s, and *)
(* the field itself, by division.                                          *)
(***************************************************************************)
fieldOf(s, x) == (x \div Pow2(SubTable[s].lowbit)) % Pow2(SubTable[s].bitcount)

outsideOf(s, x) == x - fieldOf(s, x) * Pow2(SubTable[s].lowbit)

fitsWidth(s, v) == 0 <= v /\ v < Pow2(SubTable[s].bitcount)

(***************************************************************************)
(* C14: triSubInt.set with a value that fits in bitcount bits succeeds,    *)
(* getCurrent then returns that value, and every bit of the parent's raw   *)
(* value outside the subfield's mask is as it was; no other node changes.  *)
(***************************************************************************)
C14_SubfieldSetGet ==
    (call.op = "sub.set" /\ fitsWidth(call.sub, call.vals[1])) =>
       LET s == call.sub
           p == SubTable[s].parent
       IN /\ pc = "done"
          /\ subGetCurrent(nodes, s) = call.vals[1]
          /\ outsideOf(s, nodes[p].curval) = outsideOf(s, before[p].curval)
          /\ \A q \in RegNames \ {p} : nodes[q] = before[q]

\* IRUN has been set to 5 in a parent that held 3 there and bits set in both
\* siblings and above them
C14_Witness ==
    /\ call.op = "sub.set" /\ call.sub = "IRUN" /\ call.vals = <<5>>
    /\ pc = "done"
    /\ before["IHOLD_IRUN"].curval = 27231231
    /\ nodes["IHOLD_IRUN"].curval = 27231743

(***************************************************************************)
(* C15: triSubInt.set fails for every value, negative or too large, whose  *)
(* shifted form does not fit inside the subfield's mask, and the parent's  *)
(* raw value (and every other node) is then as it was.                     *)
(***************************************************************************)
C15_SubfieldSetRefused ==
    (call.op = "sub.set" /\ ~fitsWidth(call.sub, call.vals[1])) =>
       /\ pc = "failed"
       /\ err = AssertErr
       /\ nodes = before

\* the 5 bit field IRUN has refused 32 and the parent holds what was loaded
C15_Witness ==
    /\ call.op = "sub.set" /\ call.sub = "IRUN" /\ call.vals = <<32>>
    /\ pc = "failed"
    /\ nodes["IHOLD_IRUN"].curval = 27231231

(***************************************************************************)
(* C16: a subfield has no storage of its own.  In every state, so after    *)
(* any load, write or flag change on the parent, a subfield's getCurrent   *)
(* is the slice (parent raw value & mask) >> lowbit of the parent's        *)
(* current raw value; a call of getCurrent returns that slice and changes  *)
(* no node.                                                                *)
(***************************************************************************)
C16_SubfieldIsSlice ==
    /\ \A s \in SubNames : subGetCurrent(nodes, s) = fieldOf(s, nodes[SubTable[s].parent].curval)
    /\ call.op = "sub.getCurrent" =>
          /\ pc = "done"
          /\ result = fieldOf(call.sub, nodes[SubTable[call.sub].parent].curval)
          /\ nodes = before

\* getCurrent of CS_ACTUAL has returned 31 from a parent loaded with flag bits
\* and the other subfield set
C16_Witness ==
    /\ call.op = "sub.getCurrent" /\ call.sub = "CS_ACTUAL"
    /\ pc = "done"
    /\ nodes["DRVSTATUS"].curval = 27231231
    /\ result = 31

(***************************************************************************)
(* Bit i of a natural, and whether every bit of bits is set in cur.        *)
(***************************************************************************)
bitAt(x, i) == (x \div Pow2(i)) % 2

allBitsSet(cur, bits) == \A i \in 0..30 : bitAt(bits, i) = 1 => bitAt(cur, i) = 1

(***************************************************************************)
(* C17: testing flags a|b on a flag-set node returns true iff every bit of *)
(* a and every bit of b is set in the node's current value, on the status  *)
(* node (testFlag) and on every mixed register constructed with a flag     *)
(* class (testFlags).  triMixed.__init__ stores the mask of a flag class   *)
(* as flagsmask and testFlags asserts on flagmask, so on a mixed register  *)
(* with a flag class the test raises, and this fails.                      *)
(***************************************************************************)
C17_TestFlags ==
    /\ call.op = "testFlag" =>
          /\ pc = "done"
          /\ result = allBitsSet(shortstat, call.vals[1])
    /\ (call.op = "testFlags" /\ hasFlagClass(call.regList[1])) =>
          /\ pc = "done"
          /\ result = allBitsSet(nodes[call.regList[1]].curval, call.vals[1])

(***************************************************************************)
(* C18: on a mixed register constructed with a flag class, setFlags(bits,  *)
(* on) sets (on) or clears (not on) exactly the requested bits of the raw  *)
(* value, leaves every other bit as it was, and issues no transfer.        *)
(* setFlags asserts on flagmask as testFlags does, so it raises and the    *)
(* bits are not changed, and this fails.                                   *)
(***************************************************************************)
C18_SetFlags ==
    (call.op = "setFlags" /\ hasFlagClass(call.regList[1])) =>
       LET r == call.regList[1]
           bits == call.vals[1]
       IN /\ pc = "done"
          /\ \A i \in 0..30 :
                bitAt(nodes[r].curval, i) =
                   IF bitAt(bits, i) = 1 THEN (IF call.on THEN 1 ELSE 0)
                   ELSE bitAt(before[r].curval, i)
          /\ xfers = <<>>

(***************************************************************************)
(* C19: loading a frame into an enum register (triEnum.loadBytes, directly *)
(* or as readInt's last step) whose unpacked value is the value of no      *)
(* member of the enum raises an error and leaves the node's cached value,  *)
(* and every other node, as it was.                                        *)
(***************************************************************************)
C19_EnumLoadRefused ==
    /\ (/\ call.op = "loadBytes"
        /\ rclassOf(call.regList[1]) = "triEnum"
        /\ frameValue(ba) \notin {0, 1, 2, 3}) =>
          /\ pc = "failed"
          /\ err = EnumErr
          /\ nodes = before
    /\ (/\ call.op = "readInt"
        /\ rclassOf(call.regList[1]) = "triEnum"
        /\ xfers[2].len = FrameLen
        /\ frameValue(xfers[2].back) \notin {0, 1, 2, 3}) =>
          /\ pc = "failed"
          /\ err = EnumErr
          /\ nodes = before

\* RAMPMODE held the member of value 2 and has refused a frame of value 7
C19_Witness ==
    /\ call.op = "loadBytes" /\ call.regList = <<"RAMPMODE">>
    /\ ba = <<9, 0, 0, 0, 7>>
    /\ pc = "failed"
    /\ nodes["RAMPMODE"] = [curval |-> 2, isset |-> TRUE]

(***************************************************************************)
(* C20: a write addressed to a register without write access fails, and no *)
(* transfer carrying that register's write frame is ever issued.  For      *)
(* writeInt the call fails with nothing sent.  For a batch operation       *)
(* marked 'W' or 'U' the call does not get past the operation, and no      *)
(* frame of the log is a write frame with the register's address.  The     *)
(* loop builds operation i >= 1 by the action of operation i-1, so an      *)
(* operation marked 'W' after one marked 'R' is sent as a read and is not  *)
(* refused, and this fails.                                                *)
(***************************************************************************)
C20_WriteRefused ==
    /\ (call.op \in {"writeInt", "writeIntNone"} /\ ~writeable(call.regList[1])) =>
          /\ pc = "failed"
          /\ xfers = <<>>
    /\ (isRWM /\ Len(call.regActions) \in {1, NOps}) =>
          \A k \in 1..NOps :
             (~writeable(call.regList[k]) /\ markedAction(k) \in {"W", "U"}) =>
                /\ idx <= k
                /\ pc # "done"
                /\ \A j \in 1..Len(xfers) :
                      ~(/\ isWriteFrame(xfers[j].frame)
                        /\ frameAddr(xfers[j].frame) = addr(call.regList[k]))

(***************************************************************************)
(* C21: a read addressed to a register without read access (readInt, an    *)
(* operation of a batch marked 'R', loadBytes) fails with an access error  *)
(* and no read frame for that register is transferred; a set on a subfield *)
(* whose parent register has no write access fails.                        *)
(***************************************************************************)
C21_ReadRefused ==
    /\ (call.op \in {"readInt", "loadBytes"} /\ ~readable(call.regList[1])) =>
          /\ pc = "failed"
          /\ err = AccessErr
          /\ xfers = <<>>
    /\ (isRWM /\ Len(call.regActions) \in {1, NOps}) =>
          \A k \in 1..NOps :
             (~readable(call.regList[k]) /\ markedAction(k) = "R") =>
                /\ idx <= k
                /\ pc # "done"
                /\ \A j \in 1..Len(xfers) :
                      ~(/\ ~isWriteFrame(xfers[j].frame)
                        /\ frameAddr(xfers[j].frame) = addr(call.regList[k]))
    /\ (call.op = "sub.set" /\ ~writeable(call.regList[1])) => pc = "failed"

(***************************************************************************)
(* C22: getCurrent on a register or subfield node sends nothing and        *)
(* changes no node; on a register that holds a value it returns that       *)
(* value, on a subfield the field of the parent's value.                   *)
(***************************************************************************)
C22_GetCurrent ==
    /\ call.op \in {"getCurrent", "sub.getCurrent"} =>
          /\ xfers = <<>>
          /\ nodes = before
    /\ (call.op = "getCurrent" /\ nodes[call.regList[1]].isset) =>
          /\ pc = "done"
          /\ result = nodes[call.regList[1]].curval
    /\ call.op = "sub.getCurrent" =>
          /\ pc = "done"
          /\ result = fieldOf(call.sub, nodes[call.regList[1]].curval)

(***************************************************************************)
(* The tree, told by the parent links of its nodes alone.                  *)
(***************************************************************************)
isLookup == tcall.op = "getitem"

isAttach == tcall.op = "makeChild"

\* the node named c whose parent is n, None if there is none
childByLink(n, c) ==
    IF \E j \in DOMAIN tree : tree[j].parent = n /\ tree[j].name = c
    THEN CHOOSE j \in DOMAIN tree : tree[j].parent = n /\ tree[j].name = c
    ELSE None

\* the node without parent above n
RECURSIVE topOf(_)
topOf(n) == IF tree[n].parent = None THEN n ELSE topOf(tree[n].parent)

\* where the segments lead from cur, for a lookup that started at start: '..'
\* to the parent, an empty segment to the top of the tree, a name to the child
\* of that name.  ok is FALSE when a name is no child's or there is no node to
\* step from
RECURSIVE landsOn(_, _, _)
landsOn(start, cur, segs) ==
    IF segs = <<>> THEN [ok |-> TRUE, node |-> cur]
    ELSE IF Head(segs) = "" THEN landsOn(start, topOf(start), Tail(segs))
    ELSE IF cur = None THEN [ok |-> FALSE, node |-> None]
    ELSE IF Head(segs) = ".." THEN landsOn(start, tree[cur].parent, Tail(segs))
    ELSE IF childByLink(cur, Head(segs)) = None THEN [ok |-> FALSE, node |-> None]
    ELSE landsOn(start, childByLink(cur, Head(segs)), Tail(segs))

\* the names of the nodes whose parent is n, in the order the nodes were made,
\* among the first k nodes
RECURSIVE namesByLink(_, _)
namesByLink(n, k) ==
    IF k = 0 THEN <<>>
    ELSE IF tree[k].parent = n THEN Append(namesByLink(n, k - 1), tree[k].name)
    ELSE namesByLink(n, k - 1)

(***************************************************************************)
(* C23: for a node n and the name c of a child of n, the path 'c/..'       *)
(* looked up from n gives n; and 'a/../a/b' gives the node 'a/b' gives,    *)
(* the child b of the child a of n.                                        *)
(***************************************************************************)
C23_ParentOfChild ==
    /\ (/\ isLookup
        /\ Len(tcall.path) = 2
        /\ tcall.path[2] = ".."
        /\ childByLink(tcall.node, tcall.path[1]) # None) =>
          tres = [err |-> "none", node |-> tcall.node]
    /\ (/\ isLookup
        /\ Len(tcall.path) = 4
        /\ tcall.path[2] = ".."
        /\ tcall.path[3] = tcall.path[1]
        /\ childByLink(tcall.node, tcall.path[1]) # None
        /\ childByLink(childByLink(tcall.node, tcall.path[1]), tcall.path[4]) # None) =>
          /\ tres = [err |-> "none",
                     node |-> childByLink(childByLink(tcall.node, tcall.path[1]), tcall.path[4])]
          /\ tres = getitem(tree, tcall.node, <<tcall.path[1], tcall.path[4]>>)

\* 'chipregs/../chipregs/VMAX' from the driver gives the VMAX register
C23_Witness ==
    /\ isLookup
    /\ tcall.node = 1
    /\ tcall.path = <<"chipregs", "..", "chipregs", "VMAX">>
    /\ tres.err = "none"
    /\ tree[tres.node].name = "VMAX"
    /\ tree[tree[tres.node].parent].name = "chipregs"

(***************************************************************************)
(* C24: in a path of several segments each '..' moves to the parent of the *)
(* node reached so far, each empty segment to the root of the tree, every  *)
(* other segment to the child of that name; the lookup returns the node    *)
(* reached after the last segment.                                         *)
(***************************************************************************)
C24_SegmentMoves ==
    (/\ isLookup
     /\ Len(tcall.path) > 1
     /\ landsOn(tcall.node, tcall.node, tcall.path).ok) =>
       tres = [err |-> "none", node |-> landsOn(tcall.node, tcall.node, tcall.path).node]

\* '..//chipregs' from the VMAX register: up, to the root, down to chipregs
C24_Witness ==
    /\ isLookup
    /\ tree[tcall.node].name = "VMAX"
    /\ tree[tcall.node].parent # 1
    /\ tcall.path = <<"..", "", "chipregs">>
    /\ tres.err = "none"
    /\ tree[tres.node].name = "chipregs"
    /\ tree[tres.node].parent = 1

(***************************************************************************)
(* C25: a lookup leaves the tree as it was; a path with a segment that     *)
(* names no child of the node reached so far, a segment that follows '..'  *)
(* taken at the root included, ends in the not-found error.                *)
(***************************************************************************)
C25_LookupFrame ==
    isLookup =>
       /\ tree = tbefore
       /\ (IF Len(tcall.path) = 1
           THEN tcall.path[1] # ".." /\ childByLink(tcall.node, tcall.path[1]) = None
           ELSE ~landsOn(tcall.node, tcall.node, tcall.path).ok) =>
             tres.err = KeyErr

(***************************************************************************)
(* C26: attaching a child under a name that a child of the same parent     *)
(* has fails and leaves the tree as it was: the name still leads to the    *)
(* child it led to, the other children and their order are as before; no   *)
(* two nodes with the same parent have the same name.                      *)
(***************************************************************************)
C26_DuplicateRefused ==
    /\ (/\ isAttach
        /\ \E j \in DOMAIN tbefore : tbefore[j].parent = tcall.node /\ tbefore[j].name = tcall.name) =>
          /\ tres.err = AssertErr
          /\ tree = tbefore
    /\ \A i, j \in DOMAIN tree :
          (tree[i].parent = tree[j].parent /\ tree[i].name = tree[j].name) => i = j
    /\ \A n \in DOMAIN tree : \A i, j \in DOMAIN tree[n].kids :
          tree[n].kids[i].key = tree[n].kids[j].key => i = j

\* 'extra' is attached to chipregs a second time
C26_Witness ==
    /\ isAttach
    /\ tree[tcall.node].name = "chipregs"
    /\ tcall.name = "extra"
    /\ tres.err = AssertErr
    /\ Len(tree) = Len(Constructed) + 1
    /\ tree[Len(tree)].name = "extra"
    /\ tree[Len(tree)].parent = tcall.node

(***************************************************************************)
(* C27: the children of a node iterate in the order they were attached:    *)
(* the registers in the order of the table, a child attached later after   *)
(* those attached before; a lookup leaves every node's order as it was.    *)
(***************************************************************************)
C27_InsertionOrder ==
    /\ \A n \in DOMAIN tree : keysOf(tree, n) = namesByLink(n, Len(tree))
    /\ \A n \in DOMAIN tree : \A i \in DOMAIN tree[n].kids :
          /\ tree[tree[n].kids[i].node].name = tree[n].kids[i].key
          /\ tree[tree[n].kids[i].node].parent = n
    /\ \A i \in DOMAIN RegOrder : keysOf(tree, childByLink(1, "chipregs"))[i] = RegOrder[i]
    /\ (isAttach /\ tres.err = "none") =>
          keysOf(tree, tcall.node) = Append(keysOf(tbefore, tcall.node), tcall.name)
    /\ isLookup => \A n \in DOMAIN tree : keysOf(tree, n) = keysOf(tbefore, n)

\* 'extra' and then 'VMAX' were attached to the driver
C27_Witness ==
    /\ isAttach
    /\ tcall.node = 1
    /\ tres.err = "none"
    /\ keysOf(tree, 1) = <<"chipregs", "extra", "VMAX">>

(***************************************************************************)
(* C28: the flush of a batch sends the frame of the last operation with    *)
(* the write bit cleared: byte 0 is the address of the last operation's    *)
(* register with bit 7 clear, also when that frame was a write frame, and  *)
(* the data bytes are those of that frame.  Its answer is loaded into the  *)
(* last operation's register exactly when the pass of that operation left  *)
(* a read pending.                                                         *)
(***************************************************************************)
C28_FlushFrame ==
    flushed =>
       LET last == xfers[NOps]
           fl == xfers[NOps + 1]
           reg == call.regList[NOps]
       IN /\ fl.kind = "spi_xfer"
          /\ fl.frame[1] = addr(reg)
          /\ fl.frame[1] < 128
          /\ frameAddr(last.frame) = addr(reg)
          /\ \A i \in 2..FrameLen : fl.frame[i] = last.frame[i]
          /\ fl.len = FrameLen => (fl.loaded = reg <=> last.rb)
          /\ fl.loaded \in {"none", reg}
          /\ (fl.loaded = reg /\ pc = "done") => nodes[reg].curval = decodedValue(reg, fl.back)

\* two updates: the last frame writes 5 to ENCMODE, the flush sends it again
\* as a read frame and its answer is loaded into ENCMODE
C28_Witness ==
    /\ isRWM /\ pc = "done" /\ NOps = 2
    /\ call.regList[2] = "ENCMODE"
    /\ xfers[2].frame = <<184, 0, 0, 0, 5>>
    /\ xfers[3].frame = <<56, 0, 0, 0, 5>>
    /\ xfers[3].loaded = "ENCMODE"
    /\ xfers[3].back = <<32, 1, 255, 255, 254>>
    /\ nodes["ENCMODE"].curval = 33554430

(***************************************************************************)
(* C29: when the frame of operation i >= 1 of a batch cannot be built, the *)
(* answer of every operation before it that left a read pending, the one   *)
(* just before it included, has been fetched and loaded into its register  *)
(* when the call fails.                                                    *)
(***************************************************************************)
C29_NothingLeftPending ==
    (isRWM /\ pc = "failed" /\ errat = "build" /\ idx >= 2) =>
       \A k \in 1..(idx - 1) :
          xfers[k].rb => (Len(xfers) >= k + 1 /\ xfers[k + 1].loaded = call.regList[k])

(***************************************************************************)
(* C30: after a readInt or a readWriteMultiple that returned, SHORTSTAT is *)
(* the status byte (byte 0) of the answer to the call's last exchange; a   *)
(* writeInt leaves SHORTSTAT as it was.                                    *)
(***************************************************************************)
C30_StatusOfLastAnswer ==
    /\ []((call.op \in {"readInt", "readWriteMultiple"} /\ pc = "done") =>
             /\ xfers[Len(xfers)].kind = "spi_xfer"
             /\ shortstat = xfers[Len(xfers)].back[1])
    /\ [][call'.op \in {"writeInt", "writeIntNone"} => shortstat' = shortstat]_vars

\* a batch of two reads: the step was answered with status 9, the flush with
\* status 32
C30_Witness ==
    /\ isRWM /\ pc = "done" /\ NOps = 2
    /\ xfers[2].back[1] = 9
    /\ xfers[3].back[1] = 32
    /\ shortstat = 32

(***************************************************************************)
(* C31: against a chip that answers each exchange with the data of the     *)
(* register the exchange before it addressed, readInt(name) returns that   *)
(* register's chip value, and a batch over distinct readable registers     *)
(* with the single action 'R' leaves the cached value and the output entry *)
(* of every listed register equal to its chip value.  The answer to        *)
(* exchange k+1 is the chip's data for the register frame k addressed; the *)
(* chip value of a register is what its sigbits decode from that data.     *)
(* An enumerated register of the chip holds a member.  Loading any answer  *)
(* into a triPosint register fails (C10), so this fails for IFCNT.         *)
(***************************************************************************)
chipHolds(r, bytes) ==
    rclassOf(r) = "triEnum" => frameValue(bytes) \in EnumMembers

C31_ReadsChipValue ==
    /\ (/\ call.op = "readInt"
        /\ readable(call.regList[1])
        /\ Len(xfers) = 2 /\ xfers[2].len = FrameLen
        /\ chipHolds(call.regList[1], xfers[2].back)) =>
          LET r == call.regList[1] IN
          /\ frameAddr(xfers[1].frame) = addr(r)
          /\ pc = "done"
          /\ r \in DOMAIN resp
          /\ resp[r] = decodedValue(r, xfers[2].back)
          /\ nodes[r].curval = decodedValue(r, xfers[2].back)
    /\ (/\ isRWM /\ call.regActions = <<"R">>
        /\ distinct(call.regList)
        /\ \A k \in 1..NOps : readable(call.regList[k])
        /\ \A j \in 2..Len(xfers) :
              xfers[j].len = FrameLen /\ chipHolds(call.regList[j - 1], xfers[j].back)) =>
          /\ pc # "failed"
          /\ flushed =>
                \A k \in 1..NOps :
                   LET r == call.regList[k] IN
                   /\ frameAddr(xfers[k].frame) = addr(r)
                   /\ r \in DOMAIN resp
                   /\ resp[r] = decodedValue(r, xfers[k + 1].back)
                   /\ nodes[r].curval = decodedValue(r, xfers[k + 1].back)

(***************************************************************************)
(* C32: when regActions has length 1, every operation of the batch, the    *)
(* first and the later ones alike, is treated with that single action:     *)
(* its frame addresses its register and is a read frame for 'R' and a      *)
(* write frame for 'W' and 'U', and it leaves a read pending unless the    *)
(* action is 'W'.                                                          *)
(***************************************************************************)
C32_SingleActionForAll ==
    (isRWM /\ Len(call.regActions) = 1) =>
       LET action == call.regActions[1] IN
       \A k \in 1..Len(xfers) :
          k <= NOps =>
             /\ frameAddr(xfers[k].frame) = addr(call.regList[k])
             /\ isWriteFrame(xfers[k].frame) <=> action \in {"W", "U"}
             /\ xfers[k].rb <=> action \in {"R", "U"}
             /\ action \in {"W", "U"} =>
                   xfers[k].frame = writeFrameOf(call.regList[k], sentValue(k))

\* a dict batch of three registers with the single action 'U': the frames of
\* all three operations are write frames, each leaving a read pending
C32_Witness ==
    /\ isRWM /\ call.regActions = <<"U">> /\ NOps = 3
    /\ Len(xfers) >= 3
    /\ \A k \in 1..3 : isWriteFrame(xfers[k].frame) /\ xfers[k].rb
    /\ xfers[2].loaded = call.regList[1]
    /\ xfers[3].loaded = call.regList[2]

(***************************************************************************)
(* C33: the cached value of every bounded integer register (triPosint,     *)
(* triSignedint) lies within [minval, maxval] in every reachable state:    *)
(* at the start (0) and after calls of writeInt, readInt,                  *)
(* readWriteMultiple, writeBytes, loadBytes and setVal that succeed or     *)
(* fail, with values in and out of range and any answer frames.            *)
(***************************************************************************)
C33_CacheWithinBounds ==
    \A r \in RegNames :
       isInt(r) => /\ nodes[r].isset
                   /\ inBounds(r, nodes[r].curval)

\* a write of maxval+1 to VMAX after VMAX was set to 3 has failed, and a load
\* of an answer into a signed register has stored a negative value
C33_Witness ==
    \/ /\ call.op = "writeInt" /\ call.regList = <<"VMAX">>
       /\ call.vals = <<tableMax("VMAX") + 1>>
       /\ pc = "failed" /\ err = RangeErr
       /\ nodes["VMAX"].curval = 3
    \/ /\ call.op = "readInt" /\ call.regList = <<"VACTUAL">>
       /\ pc = "done"
       /\ nodes["VACTUAL"].curval = -2

(***************************************************************************)
(* C34: a failed write to a register without write access leaves the       *)
(* register's cached value as it was, for plain, bounded integer and enum  *)
(* registers: after writeInt or writeBytes on such a register, and after a *)
(* batch refused at such a register, the node is as before the call.       *)
(* writeBytes stores the value before packBytes tests the access, so this  *)
(* fails.                                                                  *)
(***************************************************************************)
C34_RefusedWriteNotStored ==
    /\ (/\ call.op \in {"writeInt", "writeBytes"}
        /\ ~writeable(call.regList[1])
        /\ rclassOf(call.regList[1]) # "triMixed"
        /\ pc = "failed") =>
          nodes[call.regList[1]] = before[call.regList[1]]
    /\ (isRWM /\ pc = "failed" /\ errat = "build" /\ err = AccessErr) =>
          nodes[call.regList[idx]] = before[call.regList[idx]]

(***************************************************************************)
(* C35: readWriteMultiple called with a regActions whose length is neither *)
(* 1 nor the number of registers fails before any transfer is issued and   *)
(* before any register node is changed.                                    *)
(***************************************************************************)
C35_BadActionsLength ==
    (isRWM /\ Len(call.regActions) # 1 /\ Len(call.regActions) # NOps) =>
       /\ pc = "failed"
       /\ err = AssertErr
       /\ xfers = <<>>
       /\ nodes = before

\* a dict batch of three registers with two actions, the first a write of a
\* legal value to a writeable register: refused with nothing sent or stored
C35_Witness ==
    /\ isRWM /\ NOps = 3 /\ Len(call.regActions) = 2
    /\ call.isdict /\ call.regActions[1] = "W"
    /\ writeable(call.regList[1]) /\ call.vals[1] = 5
    /\ pc = "failed" /\ xfers = <<>>
    /\ nodes[call.regList[1]].curval # 5

(***************************************************************************)
(* C36: a mixed register never takes a new whole-register value through    *)
(* writeBytes.  A write with a value (writeInt, writeBytes, an operation   *)
(* of a batch that is built as a write) fails, the raw value stays as it   *)
(* was and no frame goes out for that operation.  A write with value None  *)
(* (writeInt(name, None), or a batch entry whose value is None) on a       *)
(* writeable mixed register sends the write frame of the raw value as it   *)
(* stands, built up by the subfield sets, and leaves it unchanged: a       *)
(* batch transfers a write frame of a mixed register only for an entry     *)
(* whose value is None, and that frame carries the raw value.              *)
(***************************************************************************)
C36_MixedWrite ==
    /\ (call.op \in {"writeInt", "writeBytes"} /\ rclassOf(call.regList[1]) = "triMixed") =>
          /\ pc = "failed" /\ err = NewValueErr
          /\ xfers = <<>>
          /\ nodes = before
    /\ (/\ call.op = "writeIntNone"
        /\ rclassOf(call.regList[1]) = "triMixed"
        /\ writeable(call.regList[1])) =>
          /\ pc = "done"
          /\ nodes = before
          /\ Len(xfers) = 1
          /\ xfers[1].kind = "spi_write"
          /\ xfers[1].frame = writeFrameOf(call.regList[1], before[call.regList[1]].curval)
    /\ isRWM =>
          /\ \A j \in DOMAIN xfers : \A r \in RegNames :
                (/\ rclassOf(r) = "triMixed"
                 /\ isWriteFrame(xfers[j].frame)
                 /\ frameAddr(xfers[j].frame) = addr(r)) =>
                   /\ j <= NOps
                   /\ call.regList[j] = r
                   /\ call.vals[j] = NoValue
                   /\ xfers[j].frame = writeFrameOf(r, before[r].curval)
          /\ (pc = "failed" /\ err = NewValueErr) =>
                /\ errat = "build"
                /\ rclassOf(call.regList[idx]) = "triMixed"
                /\ call.vals[idx] # NoValue
                /\ Len(xfers) = idx - 1
                /\ nodes[call.regList[idx]] = before[call.regList[idx]]
          /\ (/\ pc = "done"
              /\ call.regList = <<"IHOLD_IRUN">>
              /\ call.regActions = <<"W">>) =>
                /\ nodes = before
                /\ Len(xfers) = 2
                /\ xfers[1].frame = writeFrameOf("IHOLD_IRUN", before["IHOLD_IRUN"].curval)

\* IHOLD_IRUN holds the raw value 0x051209 and is written with value None: the
\* frame carries that value; and a batch has failed at GCONF after the
\* transfer of the operation before it
C36_Witness ==
    /\ isRWM /\ call.regList = <<"IHOLD_IRUN", "GCONF">>
    /\ call.vals = <<NoValue, 5>>
    /\ call.regActions = <<"W">>
    /\ pc = "failed" /\ err = NewValueErr /\ idx = 2
    /\ Len(xfers) = 1
    /\ xfers[1].kind = "spi_write"
    /\ xfers[1].frame = <<144, 0, 8, 15, 10>>
    /\ nodes["IHOLD_IRUN"].curval = 528138
    /\ nodes = before

(***************************************************************************)
(* C37: right after the session is constructed every register node of the  *)
(* table has a defined cached value, so that getCurrent succeeds on it     *)
(* before any exchange: 0 for bounded integers and mixed registers, some   *)
(* value for plain and enum registers.  triHex and triEnum nodes are       *)
(* given no value by their constructors and triMixed has no getCurrent of  *)
(* its own, so this fails.                                                 *)
(***************************************************************************)
asConstructed == \A r \in RegNames : before[r].isset => before[r].curval = 0

C37_DefinedAfterConstruction ==
    /\ call = NoCall => \A r \in RegNames : nodes[r].isset
    /\ (call.op = "getCurrent" /\ asConstructed) =>
          /\ pc = "done"
          /\ (isInt(call.regList[1]) \/ rclassOf(call.regList[1]) = "triMixed") => result = 0

(***************************************************************************)
(* C38: the links of the tree are consistent in every reachable state: for *)
(* every node n with a parent p, the child p holds under n's name is n     *)
(* itself, n.app is the root of the tree p is in, and following the parent *)
(* links from any node reaches that root in finitely many steps (there is  *)
(* no cycle).                                                              *)
(***************************************************************************)
\* the node reached from n by at most fuel parent links if it has no parent,
\* None if the links have not ended by then
RECURSIVE climb(_, _)
climb(n, fuel) ==
    IF tree[n].parent = None THEN n
    ELSE IF fuel = 0 \/ ~(tree[n].parent \in DOMAIN tree) THEN None
    ELSE climb(tree[n].parent, fuel - 1)

C38_LinksConsistent ==
    \A n \in DOMAIN tree :
       /\ climb(n, Len(tree)) # None
       /\ tree[n].parent # None =>
             LET p == tree[n].parent IN
             /\ p \in DOMAIN tree
             /\ \E i \in DOMAIN tree[p].kids : tree[p].kids[i].key = tree[n].name
             /\ \A i \in DOMAIN tree[p].kids :
                   tree[p].kids[i].key = tree[n].name => tree[p].kids[i].node = n
             /\ tree[n].app = climb(p, Len(tree))

\* a node was attached under the register IHOLD_IRUN and another under the
\* driver: both are held by their parents and have the driver for app, and a
\* refused attach has left the links as they were
C38_Witness ==
    /\ \E n \in DOMAIN tree :
          /\ n > Len(Constructed)
          /\ tree[n].name = "extra"
          /\ tree[n].parent = getitem(Constructed, 1, <<"chipregs", "IHOLD_IRUN">>).node
          /\ tree[n].app = 1
    /\ isAttach /\ tres.err = AssertErr

(***************************************************************************)
(* C40: nextChild without filter goes round the children of a node.  With  *)
(* wrap=True, from the name of any child, forward=True applied over and    *)
(* over visits every child once in the order of attachment and is back at  *)
(* the start after as many steps as there are children, and forward=False  *)
(* visits them in the reverse order; with wrap=False the answer past the   *)
(* last child (or before the first) is (None, None); on a node without     *)
(* children the answer is (None, None).  K is the children's names in the  *)
(* order the nodes were made, i the place of the name the call starts at.  *)
(***************************************************************************)
isNextChild == tcall.op = "nextChild"

\* the names nextChild gives when applied steps times, each time to the name
\* it gave before
RECURSIVE visited(_, _, _, _)
visited(n, name, forward, steps) ==
    IF steps = 0 THEN <<>>
    ELSE LET nx == nextChild(tree, n, name, forward, TRUE).key IN
         <<nx>> \o visited(n, nx, forward, steps - 1)

C40_NextChildCycles ==
    isNextChild =>
       LET n == tcall.node
           K == namesByLink(n, Len(tree))
           L == Len(K)
       IN
       /\ tree = tbefore
       /\ L = 0 => tres = [err |-> "none", key |-> NoName, node |-> None]
       /\ (\E i \in 1..L : K[i] = tcall.name) =>
             LET i == CHOOSE i \in 1..L : K[i] = tcall.name
                 ahead == IF tcall.forward THEN i + 1 ELSE i - 1
                 round(j) == IF tcall.forward THEN ((i + j - 1) % L) + 1
                             ELSE ((i - j - 1) % L) + 1
             IN
             /\ tres.err = "none"
             /\ (~tcall.wrap /\ ~(ahead \in 1..L)) =>
                   tres.key = NoName /\ tres.node = None
             /\ (~tcall.wrap /\ ahead \in 1..L) =>
                   tres.key = K[ahead] /\ tres.node = childByLink(n, K[ahead])
             /\ tcall.wrap =>
                   /\ tres.key = K[round(1)]
                   /\ tres.node = childByLink(n, K[round(1)])
                   /\ visited(n, tcall.name, tcall.forward, L) = [j \in 1..L |-> K[round(j)]]

\* from the last of at least three children forward with wrap the answer is
\* the first child; from the first backward without wrap it is (None, None);
\* the node asked has had a child attached since the driver made it
C40_Witness ==
    /\ isNextChild
    /\ Len(namesByLink(tcall.node, Len(tree))) >= 3
    /\ \E k \in DOMAIN tree : k > Len(Constructed) /\ tree[k].parent = tcall.node
    /\ \/ /\ tcall.name = namesByLink(tcall.node, Len(tree))[Len(namesByLink(tcall.node, Len(tree)))]
          /\ tcall.forward /\ tcall.wrap
          /\ tres.key = namesByLink(tcall.node, Len(tree))[1]
       \/ /\ tcall.name = namesByLink(tcall.node, Len(tree))[1]
          /\ ~tcall.forward /\ ~tcall.wrap
          /\ tres.node = None

(***************************************************************************)
(* C39: when the exchanges of two sequencer invocations on the same        *)
(* session interleave, a state is reachable in which a register node has   *)
(* been loaded with the answer to a request for another register; when     *)
(* the invocations take turns (locking) no such state is reachable: every  *)
(* load puts into a node the data of that node's own register, and a node  *)
(* that was loaded holds its register's chip value.                        *)
(***************************************************************************)
misloaded(e) == e.of # e.node

C39_SerializedLoadsOwnAnswer ==
    locking =>
       /\ \A e \in loadlog : ~misloaded(e)
       /\ \A e \in loadlog : nodes[e.node].curval = ChipVal[e.node]
       /\ \A t \in Threads : \A n \in DOMAIN tresp[t] : tresp[t][n] = ChipVal[n]

\* without locking: thread 1 reads VACTUAL then ENCMODE, thread 2 ENCMODE then
\* VACTUAL; thread 1 holds the answer of its first exchange, which carries
\* ENCMODE's data, while thread 2 runs to its end, and then loads it.  Both
\* have returned: the nodes and thread 1's answer have the two values crossed
C39_Witness ==
    /\ ~locking
    /\ [node |-> "VACTUAL", of |-> "ENCMODE"] \in loadlog
    /\ \E e \in loadlog : misloaded(e)
    /\ tinv[1] = [op |-> "readWriteMultiple", regList |-> <<"VACTUAL", "ENCMODE">>]
    /\ tinv[2] = [op |-> "readWriteMultiple", regList |-> <<"ENCMODE", "VACTUAL">>]
    /\ tpc[1] = "done" /\ tpc[2] = "done"
    /\ nodes["VACTUAL"].curval = ChipVal["ENCMODE"]
    /\ nodes["ENCMODE"].curval = ChipVal["VACTUAL"]
    /\ tresp[1] = ("VACTUAL" :> ChipVal["ENCMODE"]) @@ ("ENCMODE" :> ChipVal["VACTUAL"])
    /\ tresp[2] = ("ENCMODE" :> ChipVal["ENCMODE"]) @@ ("VACTUAL" :> ChipVal["VACTUAL"])

====
